---- MODULE Spec2Model ----
(***************************************************************************)
(* A model of cfileio.c, the file-access core of CFITSIO: the URL parser   *)
(* (ffiurl), the driver registry (fits_register_driver, urltype2driver)    *)
(* and the file-handle layer (ffopen, ffomem, ffreopen, ffinit, ffclos,    *)
(* ffdelt) with its reference counting of shared FITSfile structures.      *)
(*                                                                         *)
(* C strings are sequences of one-character strings; a NULL pointer or an  *)
(* absent driver function is FALSE in the corresponding flag.  A status is *)
(* the name of the CFITSIO status code, "OK" standing for 0; every other   *)
(* name is a status > 0.                                                   *)
(***************************************************************************)
EXTENDS Integers, Sequences, FiniteSets, TLC

\* ------------------------------------------------------------------------
\* C string helpers (string.h, ctype.h as used by cfileio.c)
\* ------------------------------------------------------------------------

Digits == {"0", "1", "2", "3", "4", "5", "6", "7", "8", "9"}

isdigit(c) == c \in Digits

UpperToLower ==
  [c \in {"A","B","C","D","E","F","G","H","I","J","K","L","M",
          "N","O","P","Q","R","S","T","U","V","W","X","Y","Z"} |->
     CASE c = "A" -> "a" [] c = "B" -> "b" [] c = "C" -> "c" [] c = "D" -> "d"
       [] c = "E" -> "e" [] c = "F" -> "f" [] c = "G" -> "g" [] c = "H" -> "h"
       [] c = "I" -> "i" [] c = "J" -> "j" [] c = "K" -> "k" [] c = "L" -> "l"
       [] c = "M" -> "m" [] c = "N" -> "n" [] c = "O" -> "o" [] c = "P" -> "p"
       [] c = "Q" -> "q" [] c = "R" -> "r" [] c = "S" -> "s" [] c = "T" -> "t"
       [] c = "U" -> "u" [] c = "V" -> "v" [] c = "W" -> "w" [] c = "X" -> "x"
       [] c = "Y" -> "y" [] c = "Z" -> "z"]

tolower(c) == IF c \in DOMAIN UpperToLower THEN UpperToLower[c] ELSE c

\* s[from..], the C string starting at the 1-based position from
Suffix(s, from) == SubSeq(s, from, Len(s))

\* the first n characters of s (strncat(dst = "", s, n))
Prefix(s, n) == SubSeq(s, 1, IF n < Len(s) THEN n ELSE Len(s))

\* strncmp(s, pat, Len(pat)) == 0
StartsWith(s, pat) == Len(s) >= Len(pat) /\ SubSeq(s, 1, Len(pat)) = pat

\* strchr(s, c): the 1-based position of the first c in s, 0 for NULL
strchr(s, c) ==
  IF \E i \in 1..Len(s) : s[i] = c
  THEN CHOOSE i \in 1..Len(s) : s[i] = c /\ \A j \in 1..(i - 1) : s[j] # c
  ELSE 0

\* strstr(s, pat): the 1-based position of the first occurrence, 0 for NULL
strstr(s, pat) ==
  IF \E i \in 1..(Len(s) - Len(pat) + 1) : SubSeq(s, i, i + Len(pat) - 1) = pat
  THEN CHOOSE i \in 1..(Len(s) - Len(pat) + 1) :
         /\ SubSeq(s, i, i + Len(pat) - 1) = pat
         /\ \A j \in 1..(i - 1) : SubSeq(s, j, j + Len(pat) - 1) # pat
  ELSE 0

\* the position of the last c in s, 0 when there is none (backward scans)
LastIndexOf(s, c) ==
  IF \E i \in 1..Len(s) : s[i] = c
  THEN CHOOSE i \in 1..Len(s) : s[i] = c /\ \A j \in (i + 1)..Len(s) : s[j] # c
  ELSE 0

\* *ptr for a pointer into a string, given as the rest of the string: "NUL"
\* is the terminator
Cur(p) == IF Len(p) = 0 THEN "NUL" ELSE p[1]

\* while (*url == ' ') url++;
RECURSIVE SkipBlanks(_)
SkipBlanks(s) ==
  IF Len(s) > 0 /\ s[1] = " " THEN SkipBlanks(Tail(s)) ELSE s

\* for (ii = slen - 1; ii > 0; ii--) if (s[ii] == ' ') s[ii] = 0; else break;
\* the character at index 0 is never examined
RECURSIVE StripTrailingBlanks(_)
StripTrailingBlanks(s) ==
  IF Len(s) > 1 /\ s[Len(s)] = " "
  THEN StripTrailingBlanks(SubSeq(s, 1, Len(s) - 1))
  ELSE s

\* ------------------------------------------------------------------------
\* String literals of the source
\* ------------------------------------------------------------------------

MAX_PREFIX_LEN == 20

MAX_DRIVERS == 15

\* fitsio.h: the sizes of the buffers for a file name and for a keyword
\* value string, terminator included
FLEN_FILENAME == 1025

FLEN_VALUE == 71

\* fitsio.h: the size of the buffer for an error message
FLEN_ERRMSG == 81

\* the string and its terminator do not fit a char[size]
Overflows(s, size) == Len(s) >= size

STR_sep      == <<":", "/", "/">>
STR_file     == <<"f","i","l","e",":","/","/">>
STR_mem      == <<"m","e","m",":","/","/">>
STR_memkeep  == <<"m","e","m","k","e","e","p",":","/","/">>
STR_stdin    == <<"s","t","d","i","n",":","/","/">>
STR_stdout   == <<"s","t","d","o","u","t",":","/","/">>
STR_compress == <<"c","o","m","p","r","e","s","s",":","/","/">>
STR_ftp      == <<"f","t","p",":","/","/">>
STR_http     == <<"h","t","t","p",":","/","/">>
STR_shmem    == <<"s","h","m","e","m",":","/","/">>
STR_root     == <<"r","o","o","t",":","/","/">>
STR_httpfile     == <<"h","t","t","p","f","i","l","e",":","/","/">>
STR_httpcompress == <<"h","t","t","p","c","o","m","p","r","e","s","s",":","/","/">>
STR_ftpfile      == <<"f","t","p","f","i","l","e",":","/","/">>
STR_ftpcompress  == <<"f","t","p","c","o","m","p","r","e","s","s",":","/","/">>

\* ------------------------------------------------------------------------
\* ffiurl: parse the input URL into its basic components
\* ------------------------------------------------------------------------

\* The two orders in which a build may evaluate  *(ptr1++) = tolower(*ptr1):
\* the operand *ptr1 is read before or after the increment of ptr1 (the
\* statement modifies ptr1 and reads it without an intervening sequence point).
TolowerOrders == {"read_then_increment", "increment_then_read"}

\* the names of ffiurl's output parameters
IurlOutputs ==
  {"urltype", "infile", "outfile", "extspec", "rowfilter", "binspec", "colspec"}

\* what ffiurl leaves in its outputs when it returns before filling them.
\* longest is the length of the longest string the call copied into one of
\* the outputs other than urltype, whose buffers belong to the caller.
IurlEmpty ==
  [status |-> "OK", urltype |-> << >>, infile |-> << >>, outfile |-> << >>,
   extspec |-> << >>, rowfilter |-> << >>, binspec |-> << >>, colspec |-> << >>,
   ub |-> FALSE, written |-> TRUE, longest |-> 0]

\* the outputs r after a copy of n characters into one of them
Longer(r, n) == [r EXCEPT !.longest = IF n > @ THEN n ELSE @]

\* get urltype (e.g., file://, ftp://, http://, etc.); url is not empty
IurlPrefix(url) ==
  IF url[1] = "-" THEN [urltype |-> STR_stdin, rest |-> Tail(url)]
  ELSE IF strstr(url, STR_sep) > 0
    THEN [urltype |-> SubSeq(url, 1, strstr(url, STR_sep) + 2),
          rest    |-> Suffix(url, strstr(url, STR_sep) + 3)]
  ELSE IF StartsWith(url, <<"f","t","p",":">>)
    THEN [urltype |-> STR_ftp, rest |-> Suffix(url, 5)]
  ELSE IF StartsWith(url, <<"h","t","t","p",":">>)
    THEN [urltype |-> STR_http, rest |-> Suffix(url, 6)]
  ELSE IF StartsWith(url, <<"m","e","m",":">>)
    THEN [urltype |-> STR_mem, rest |-> Suffix(url, 5)]
  ELSE IF StartsWith(url, <<"s","h","m","e","m",":">>)
    THEN [urltype |-> STR_shmem, rest |-> Suffix(url, 7)]
  ELSE IF StartsWith(url, <<"f","i","l","e",":">>)
    THEN [urltype |-> STR_file, rest |-> Suffix(url, 6)]
  ELSE [urltype |-> STR_file, rest |-> url]

\* get the input file name: rest is the text after the prefix.  ok is FALSE
\* when a '(' has no closing ')': the name in front of the '(' is copied
\* before the ')' is looked for.  bracket is the position of the first '['
\* in rest (0: none).
IurlNames(rest) ==
  LET ptr2 == strchr(rest, "(")
      ptr3 == strchr(rest, "[")
      close == IF ptr2 > 0 THEN strchr(Suffix(rest, ptr2 + 1), ")") ELSE 0
  IN  IF ptr2 = 0 /\ ptr3 = 0
        THEN [ok |-> TRUE, infile |-> rest, outfile |-> << >>, bracket |-> 0]
      ELSE IF ptr3 = 0 \/ (ptr2 > 0 /\ ptr2 < ptr3)
        THEN IF close = 0
             THEN [ok |-> FALSE, infile |-> SubSeq(rest, 1, ptr2 - 1),
                   outfile |-> << >>, bracket |-> ptr3]
             ELSE [ok |-> TRUE, infile |-> SubSeq(rest, 1, ptr2 - 1),
                   outfile |-> SubSeq(rest, ptr2 + 1, ptr2 + close - 1),
                   bracket |-> ptr3]
      ELSE [ok |-> TRUE, infile |-> SubSeq(rest, 1, ptr3 - 1),
            outfile |-> << >>, bracket |-> ptr3]

\* check if the 'filename+n' convention has been used.  ii is the C index of
\* the last '+' (-1 when there is none), jj the length.  Returns the infile
\* left, the extspec copied, plus_ext, and oob: infile[-1] was written.
IurlPlusExt(infile) ==
  LET jj == Len(infile)
      ii == LastIndexOf(infile, "+") - 1
      alldigits == \A k \in (ii + 2)..jj : isdigit(infile[k])
  IN  IF ii # 0 /\ (jj - ii) < 5 /\ alldigits
      THEN [infile   |-> IF ii >= 0 THEN SubSeq(infile, 1, ii) ELSE infile,
            extspec  |-> SubSeq(infile, ii + 2, jj),
            plus_ext |-> TRUE,
            oob      |-> ii < 0]
      ELSE [infile |-> infile, extspec |-> << >>, plus_ext |-> FALSE,
            oob |-> FALSE]

\* if '*' was given for the output name expand it to the root file name
IurlStar(outfile, infile) ==
  IF Len(outfile) > 0 /\ outfile[1] = "*" /\ LastIndexOf(infile, "/") > 0
  THEN Suffix(infile, LastIndexOf(infile, "/") + 1)
  ELSE outfile

\* ptr1 = rowfilter; while (*ptr1) *(ptr1++) = tolower( *ptr1);
IurlLower(rowfilter, order) ==
  IF order = "read_then_increment"
  THEN [i \in 1..Len(rowfilter) |-> tolower(rowfilter[i])]
  ELSE [i \in 1..(Len(rowfilter) - 1) |-> tolower(rowfilter[i + 1])]

\* does the filter contain a binning specification?  The position of "[bin"
\* in rowfilter when it is followed (after an optional datatype letter) by a
\* space or ']', else 0.
IurlBinPos(rowfilter) ==
  LET ptr1 == strstr(rowfilter, <<"[","b","i","n">>)
      c4   == IF ptr1 > 0 /\ ptr1 + 4 <= Len(rowfilter)
              THEN rowfilter[ptr1 + 4] ELSE "NUL"
      ptr2 == IF c4 \in {"b", "i", "j", "r", "d"} THEN ptr1 + 5 ELSE ptr1 + 4
      c    == IF ptr1 > 0 /\ ptr2 <= Len(rowfilter) THEN rowfilter[ptr2]
              ELSE "NUL"
  IN  IF ptr1 > 0 /\ c \in {" ", "]"} THEN ptr1 ELSE 0

\* copy the bracketed specification that starts at ptr1 (the position of its
\* '[') and delete it from the filter.  wanted: the output pointer is not
\* NULL.  ok is FALSE when the closing ']' is missing and the output is
\* wanted; crash when it is missing and the output is NULL (strcpy from
\* NULL + 1).  copied: the length of the text that strcpy put into the
\* output before it was cut at the ']'.
IurlCut(rowfilter, ptr1, wanted) ==
  LET body  == Suffix(rowfilter, ptr1 + 1)
      close == strchr(body, "]")
      spec0 == SubSeq(body, 1, close - 1)
      spec  == IF Len(spec0) > 0 /\ spec0[Len(spec0)] = " "
               THEN SubSeq(spec0, 1, Len(spec0) - 1) ELSE spec0
  IN  IF ptr1 = 0
      THEN [rowfilter |-> rowfilter, ok |-> TRUE, spec |-> << >>,
            crash |-> FALSE, copied |-> 0]
      ELSE IF close = 0
      THEN [rowfilter |-> rowfilter, ok |-> ~wanted,
            spec |-> IF wanted THEN body ELSE << >>, crash |-> ~wanted,
            copied |-> IF wanted THEN Len(body) ELSE 0]
      ELSE [rowfilter |-> SubSeq(rowfilter, 1, ptr1 - 1)
                          \o Suffix(rowfilter, ptr1 + close + 1),
            ok |-> TRUE, spec |-> IF wanted THEN spec ELSE << >>,
            crash |-> FALSE, copied |-> IF wanted THEN Len(body) ELSE 0]

\* ffiurl from the column specifier on: bcut and ccut are the cuts of the
\* binning and of the column specifier, ext the extension specifier
IurlColumns(r, ext, outs, bcut, ccut) ==
  IF ccut.crash
    THEN [r EXCEPT !.extspec = ext, !.binspec = bcut.spec, !.ub = TRUE]
  ELSE IF ~ccut.ok
    THEN Longer([r EXCEPT !.extspec = ext, !.binspec = bcut.spec,
                          !.colspec = ccut.spec,
                          !.status = "URL_PARSE_ERROR"],
                ccut.copied)
  ELSE Longer(Longer([r EXCEPT !.extspec = ext, !.binspec = bcut.spec,
                               !.colspec = ccut.spec,
                               !.rowfilter = IF "rowfilter" \in outs
                                             THEN ccut.rowfilter ELSE << >>],
                     ccut.copied),
              IF "rowfilter" \in outs THEN Len(ccut.rowfilter) ELSE 0)

\* ffiurl from the binning specifier on
IurlBinning(r, ext, outs, bcut) ==
  IF bcut.crash THEN [r EXCEPT !.extspec = ext, !.ub = TRUE]
  ELSE IF ~bcut.ok
    THEN Longer([r EXCEPT !.extspec = ext, !.binspec = bcut.spec,
                          !.status = "URL_PARSE_ERROR"], bcut.copied)
  ELSE IurlColumns(Longer(r, bcut.copied), ext, outs, bcut,
                   IurlCut(bcut.rowfilter,
                           strstr(bcut.rowfilter, <<"[","c","o","l">>),
                           "colspec" \in outs))

\* ffiurl from the filter in lower case on
IurlFilter(r, ext, outs, row) ==
  IurlBinning(r, ext, outs, IurlCut(row, IurlBinPos(row), "binspec" \in outs))

\* the part of ffiurl after the names: the extension specifier and filters.
\* r holds the outputs so far, rest the text after the prefix, bracket the
\* position of the first '[' in rest.
IurlBrackets(r, rest, bracket, plus_ext, outs, order) ==
  LET close == strchr(Suffix(rest, bracket + 1), "]")
      ext   == IF plus_ext THEN r.extspec
               ELSE IF "extspec" \in outs
                    THEN SubSeq(rest, bracket + 1, bracket + close - 1)
                    ELSE << >>
      row0  == IF plus_ext THEN Suffix(rest, bracket)
               ELSE Suffix(rest, bracket + close + 1)
      row1  == StripTrailingBlanks(row0)
  IN  IF ~plus_ext /\ close = 0
        THEN [r EXCEPT !.status = "URL_PARSE_ERROR"]
      ELSE IF row1 = << >> THEN Longer([r EXCEPT !.extspec = ext], Len(ext))
      ELSE IurlFilter(Longer(r, Len(ext)), ext, outs, IurlLower(row1, order))

\* ffiurl from the copy of the names to the outputs on: plus is what the
\* 'filename+n' convention gave
IurlFilled(pre, ut, names, plus, outs, order) ==
  LET r1 == [IurlEmpty EXCEPT
               !.urltype = ut,
               !.ub = Overflows(ut, MAX_PREFIX_LEN) \/ plus.oob,
               !.outfile = IurlStar(IF "outfile" \in outs
                                    THEN StripTrailingBlanks(names.outfile)
                                    ELSE << >>, plus.infile),
               !.extspec = IF "extspec" \in outs THEN plus.extspec
                           ELSE << >>,
               !.infile = IF "infile" \in outs THEN plus.infile ELSE << >>]
      \* the copies into outfile (strncat, then strcpy for a '*'), extspec
      \* and infilex
      r0 == Longer(Longer(Longer(Longer(r1,
                IF "outfile" \in outs THEN Len(names.outfile) ELSE 0),
                Len(r1.outfile)), Len(r1.extspec)), Len(r1.infile))
  IN  IF names.bracket = 0 THEN r0
      ELSE IurlBrackets(r0, pre.rest, names.bracket, plus.plus_ext, outs,
                        order)

\* ffiurl from the names on: names holds the input and output file names
IurlNamed(pre, ut, names, outs, order) ==
  IF ~names.ok
    THEN [IurlEmpty EXCEPT !.urltype = ut, !.status = "URL_PARSE_ERROR",
                           !.ub = Overflows(ut, MAX_PREFIX_LEN)]
  ELSE IurlFilled(pre, ut, names,
                  IurlPlusExt(StripTrailingBlanks(names.infile)), outs, order)

\* ffiurl from the type on: pre holds the type and the text after it
IurlTyped(pre, outs, order) ==
  IurlNamed(pre, IF "urltype" \in outs THEN pre.urltype ELSE << >>,
            IurlNames(pre.rest), outs, order)

\* ffiurl(url, urltype, infilex, outfile, extspec, rowfilterx, binspec,
\* colspec, status).  outs: the output pointers that are not NULL; nomem: the
\* malloc of the work strings fails; order: the build's evaluation order of
\* the lower-casing statement.  ub: the call wrote outside a buffer or read
\* through a null pointer.
ffiurl(url, outs, status, nomem, order) ==
  IF status # "OK"
    THEN [IurlEmpty EXCEPT !.status = status, !.written = FALSE]
  ELSE IF Len(url) = 0 THEN IurlEmpty
  ELSE IF nomem THEN [IurlEmpty EXCEPT !.status = "MEMORY_ALLOCATION"]
  ELSE IurlTyped(IurlPrefix(url), outs, order)

\* ------------------------------------------------------------------------
\* ffourl: parse the output URL into its basic components
\* ------------------------------------------------------------------------

ffourl(url, status) ==
  IF status # "OK"
    THEN [status |-> status, urltype |-> << >>, outfile |-> << >>,
          ub |-> FALSE, written |-> FALSE]
  ELSE IF Len(url) > 0 /\ url[1] = "-"
    THEN [status |-> "OK", urltype |-> STR_stdout, outfile |-> << >>,
          ub |-> FALSE, written |-> TRUE]
  ELSE IF strstr(url, STR_sep) > 0
    THEN [status |-> "OK",
          urltype |-> SubSeq(url, 1, strstr(url, STR_sep) + 2),
          outfile |-> Suffix(url, strstr(url, STR_sep) + 3),
          ub |-> Overflows(SubSeq(url, 1, strstr(url, STR_sep) + 2),
                           MAX_PREFIX_LEN),
          written |-> TRUE]
  ELSE [status |-> "OK", urltype |-> STR_file, outfile |-> url, ub |-> FALSE,
        written |-> TRUE]

\* ------------------------------------------------------------------------
\* ffrtnm: parse the input URL, returning the root name
\* ------------------------------------------------------------------------

\* get urltype: "-" stays "-", and a name without a prefix has none
RtnmPrefix(url) ==
  IF Cur(url) = "-" THEN [urltype |-> <<"-">>, rest |-> Tail(url)]
  ELSE IF strstr(url, STR_sep) > 0
    THEN [urltype |-> SubSeq(url, 1, strstr(url, STR_sep) + 2),
          rest    |-> Suffix(url, strstr(url, STR_sep) + 3)]
  ELSE IF StartsWith(url, <<"f","t","p",":">>)
    THEN [urltype |-> STR_ftp, rest |-> Suffix(url, 5)]
  ELSE IF StartsWith(url, <<"h","t","t","p",":">>)
    THEN [urltype |-> STR_http, rest |-> Suffix(url, 6)]
  ELSE IF StartsWith(url, <<"m","e","m",":">>)
    THEN [urltype |-> STR_mem, rest |-> Suffix(url, 5)]
  ELSE IF StartsWith(url, <<"s","h","m","e","m",":">>)
    THEN [urltype |-> STR_shmem, rest |-> Suffix(url, 7)]
  ELSE IF StartsWith(url, <<"f","i","l","e",":">>)
    THEN [urltype |-> << >>, rest |-> Suffix(url, 6)]
  ELSE [urltype |-> << >>, rest |-> url]

\* ffrtnm from the 'filename+n' convention on
RtnmRoot(pre, plus) ==
  [status |-> "OK", ub |-> Overflows(pre.urltype, MAX_PREFIX_LEN) \/ plus.oob,
   written |-> TRUE, rootname |-> pre.urltype \o plus.infile]

\* the name was copied into the local infile[FLEN_FILENAME]
RtnmCopied(r, names) ==
  [r EXCEPT !.ub = @ \/ Overflows(names.infile, FLEN_FILENAME)]

\* ffrtnm from the names on
RtnmNamed(pre, names) ==
  IF ~names.ok
    THEN RtnmCopied([status |-> "URL_PARSE_ERROR",
                     ub |-> Overflows(pre.urltype, MAX_PREFIX_LEN),
                     written |-> TRUE, rootname |-> << >>], names)
  ELSE RtnmCopied(RtnmRoot(pre,
                           IurlPlusExt(StripTrailingBlanks(names.infile))),
                  names)

\* ffrtnm from the type on
RtnmTyped(pre) == RtnmNamed(pre, IurlNames(pre.rest))

\* ffrtnm(url, rootname, status)
ffrtnm(url, status) ==
  IF status # "OK"
    THEN [status |-> status, ub |-> FALSE, written |-> FALSE,
          rootname |-> << >>]
  ELSE RtnmTyped(RtnmPrefix(url))

\* ------------------------------------------------------------------------
\* ffexts: parse the extension specification
\* ------------------------------------------------------------------------

DigitValue(c) ==
  CASE c = "0" -> 0 [] c = "1" -> 1 [] c = "2" -> 2 [] c = "3" -> 3
    [] c = "4" -> 4 [] c = "5" -> 5 [] c = "6" -> 6 [] c = "7" -> 7
    [] c = "8" -> 8 [] c = "9" -> 9

\* the number of leading characters of s that are in (strspn) the set
RECURSIVE strspn(_, _)
strspn(s, set) ==
  IF Len(s) > 0 /\ s[1] \in set THEN 1 + strspn(Tail(s), set) ELSE 0

\* the number of leading characters of s that are not in (strcspn) the set
RECURSIVE strcspn(_, _)
strcspn(s, set) ==
  IF Len(s) > 0 /\ s[1] \notin set THEN 1 + strcspn(Tail(s), set) ELSE 0

\* the value of a run of decimal digits
RECURSIVE DecimalValue(_)
DecimalValue(ds) ==
  IF Len(ds) = 0 THEN 0
  ELSE 10 * DecimalValue(SubSeq(ds, 1, Len(ds) - 1)) + DigitValue(ds[Len(ds)])

\* the digits without the leading zeros
RECURSIVE Significant(_)
Significant(ds) ==
  IF Len(ds) > 1 /\ ds[1] = "0" THEN Significant(Tail(ds)) ELSE ds

\* the run of digits denotes a number above INT_MAX, 2147483647
AboveIntMax(ds) ==
  LET t == Significant(ds)
  IN  \/ Len(t) > 10
      \/ /\ Len(t) = 10
         /\ \/ DecimalValue(SubSeq(t, 1, 9)) > 214748364
            \/ /\ DecimalValue(SubSeq(t, 1, 9)) = 214748364
               /\ DigitValue(t[10]) > 7

\* the vertical tab '\v', which has no escape in a string here: the string
\* holds the character itself
VT == ""

\* the characters isspace() accepts: blank, \t, \n, \v, \f, \r
WhiteSpace == {" ", "\t", "\n", VT, "\f", "\r"}

\* sscanf(s, "%d", &v): nvals is 1 when a number was converted, 0 when the
\* text is no number and -1 (EOF) when it ends before anything but white
\* space was read; nothing is stored unless nvals is 1 (value is 0 then).
\* White space is skipped and one sign accepted, as scanf does.  ovf: the
\* number does not fit an int, and what sscanf stores then is undefined.
sscanf_d(s) ==
  LET t    == Suffix(s, strspn(s, WhiteSpace) + 1)
      neg  == Len(t) > 0 /\ t[1] = "-"
      u    == IF Len(t) > 0 /\ t[1] \in {"-", "+"} THEN Tail(t) ELSE t
      n    == strspn(u, Digits)
      ovf  == AboveIntMax(SubSeq(u, 1, n))
      v    == IF ovf THEN 0 ELSE DecimalValue(SubSeq(u, 1, n))
  IN  [ovf |-> ovf,
       nvals |-> IF n > 0 THEN 1 ELSE IF Len(t) = 0 THEN 0 - 1 ELSE 0,
       value |-> IF neg THEN 0 - v ELSE v]

\* ub: a number of the specifier did not fit an int
ExtsDefault ==
  [status |-> "OK", ub |-> FALSE, written |-> TRUE, extnum |-> 0,
   extname |-> << >>, extvers |-> 0, hdutype |-> "ANY_HDU"]

\* ffexts from the version on: named holds the outputs with the name, vers
\* the conversion of the version, p5 the text after it
ExtsVersion(named, vers, p5) ==
  IF vers.ovf THEN [named EXCEPT !.ub = TRUE]
  ELSE IF vers.nvals # 1 THEN [named EXCEPT !.status = "URL_PARSE_ERROR"]
  ELSE IF Len(p5) = 0 THEN [named EXCEPT !.extvers = vers.value]
  ELSE IF p5[1] \in {"b", "B"}
    THEN [named EXCEPT !.extvers = vers.value, !.hdutype = "BINARY_TBL"]
  ELSE IF p5[1] \in {"t", "T", "a", "A"}
    THEN [named EXCEPT !.extvers = vers.value, !.hdutype = "ASCII_TBL"]
  ELSE IF p5[1] \in {"i", "I"}
    THEN [named EXCEPT !.extvers = vers.value, !.hdutype = "IMAGE_HDU"]
  ELSE [named EXCEPT !.extvers = vers.value, !.status = "URL_PARSE_ERROR"]

\* ffexts from the name on: p3 is the text after the name and its
\* separators
ExtsNamed(named, p3) ==
  LET slen2 == strcspn(p3, {" ", ",", ":"})
      p4    == Suffix(p3, slen2 + 1)
  IN  IF slen2 = 0 THEN named
      ELSE ExtsVersion(named, sscanf_d(p3),
                       Suffix(p4, strspn(p4, {" ", ",", ":"}) + 1))

\* ffexts from the first character on: ptr1 is the specifier without
\* leading blanks
ExtsSpec(ptr1) ==
  LET num   == sscanf_d(ptr1).value
      slen1 == strcspn(ptr1, {" ", ",", ":"})
      p2    == Suffix(ptr1, slen1 + 1)
  IN  IF Len(ptr1) > 0 /\ isdigit(ptr1[1])
        THEN IF sscanf_d(ptr1).ovf THEN [ExtsDefault EXCEPT !.ub = TRUE]
             ELSE IF num < 0 \/ num > 9999
             THEN [ExtsDefault EXCEPT !.status = "URL_PARSE_ERROR"]
             ELSE [ExtsDefault EXCEPT !.extnum = num]
      ELSE ExtsNamed([ExtsDefault EXCEPT !.extname = SubSeq(ptr1, 1, slen1)],
                     Suffix(p2, strspn(p2, {" ", ",", ":"}) + 1))

\* the four outputs are set to their defaults before the status is tested
ffexts(extspec, status) ==
  IF status # "OK" THEN [ExtsDefault EXCEPT !.status = status]
  ELSE ExtsSpec(SkipBlanks(extspec))

\* ------------------------------------------------------------------------
\* Bounds of the model
\* ------------------------------------------------------------------------

\* FITSfile structures that can be allocated in one run
MaxFiles == 4

\* fitsfile structures (Handles) that can be allocated in one run
MaxHandles == 4

\* driver handles that the drivers can mint in one run
MaxDH == 4

\* I/O buffers whose current file ffcurbuf reports
NIOBUF == 4

\* ------------------------------------------------------------------------
\* The state of the program
\* ------------------------------------------------------------------------

VARIABLES
  need_to_initialize, \* true if CFITSIO has not been initialized
  no_of_drivers,      \* number of currently defined I/O drivers
  driverTable,        \* the driver tables, indexed 0..MAX_DRIVERS-1
  Fptr,               \* the FITSfile structures (SharedFile), by address
  fptr,               \* the fitsfile structures (Handle), by address
  bufptr,             \* the current file of every I/O buffer (0: none)
  drvh,               \* the driver handles minted by the drivers
  build,              \* the build: compile-time options, evaluation order
  ub,                 \* a call has run into undefined behaviour
  held,               \* the Handles the caller got from successful calls
  last                \* the last call: its inputs, status and trace

vars == <<need_to_initialize, no_of_drivers, driverTable, Fptr, fptr, bufptr,
          drvh, build, ub, held, last>>

\* a char* that is NULL
NullStr == <<"NULL">>

\* an entry of the call trace: a driver function or a collaborator was called
Ev(name, driver, handle, str) ==
  [ev |-> name, driver |-> driver, handle |-> handle, str |-> str]

\* ------------------------------------------------------------------------
\* The driver table
\* ------------------------------------------------------------------------

Drv(prefix, init, shutdown, setoptions, getoptions, getversion, checkfile, open, create, truncate, close, remove, size, flush, seek, read, write) ==
  [prefix |-> prefix, init |-> init, shutdown |-> shutdown,
   setoptions |-> setoptions, getoptions |-> getoptions,
   getversion |-> getversion, checkfile |-> checkfile, open |-> open,
   create |-> create, truncate |-> truncate, close |-> close,
   remove |-> remove, size |-> size, flush |-> flush, seek |-> seek,
   read |-> read, write |-> write]

\* an entry of the zero-initialised static table
EmptyDriver ==
  Drv(<< >>, "NULL", "NULL", "NULL", "NULL", "NULL", "NULL", "NULL", "NULL",
      "NULL", "NULL", "NULL", "NULL", "NULL", "NULL", "NULL", "NULL")

\* a driver whose functions are the file_* functions, except checkfile, open
FileDrv(prefix, checkfile, open, trunc) ==
  Drv(prefix, "file_init", "file_shutdown", "file_setoptions",
      "file_getoptions", "file_getversion", checkfile, open, "file_create",
      trunc, "file_close", "file_remove", "file_size", "file_flush",
      "file_seek", "file_read", "file_write")

\* a driver whose functions are the mem_* functions, except those given
MemDrv(prefix, checkfile, open, create, close) ==
  Drv(prefix, "mem_init", "mem_shutdown", "mem_setoptions", "mem_getoptions",
      "mem_getversion", checkfile, open, create, "mem_truncate", close,
      "NULL", "mem_size", "NULL", "mem_seek", "mem_read", "mem_write")

\* the drivers fits_init_cfitsio registers, in its order, for a build
BuiltinDrivers(b) ==
  LET trunc == IF b.ftruncate THEN "file_truncate" ELSE "NULL"
      std == << FileDrv(STR_file, "file_checkfile", "file_open", trunc),
                MemDrv(STR_mem, "NULL", "NULL", "mem_create", "mem_close_free"),
                MemDrv(STR_memkeep, "NULL", "NULL", "NULL", "mem_close_keep"),
                MemDrv(STR_stdin, "NULL", "stdin_open", "NULL",
                       "mem_close_free"),
                MemDrv(STR_stdout, "NULL", "NULL", "mem_create",
                       "stdout_close"),
                MemDrv(STR_compress, "NULL", "compress_open", "NULL",
                       "mem_close_free") >>
      net == << Drv(STR_root, "root_init", "root_shutdown", "root_setoptions",
                    "root_getoptions", "root_getversion", "NULL", "root_open",
                    "root_create", "NULL", "root_close", "NULL", "root_size",
                    "root_flush", "root_seek", "root_read", "root_write"),
                MemDrv(STR_http, "http_checkfile", "http_open", "NULL",
                       "mem_close_free"),
                FileDrv(STR_httpfile, "NULL", "http_file_open", trunc),
                MemDrv(STR_httpcompress, "NULL", "http_compress_open", "NULL",
                       "mem_close_free"),
                MemDrv(STR_ftp, "ftp_checkfile", "ftp_open", "NULL",
                       "mem_close_free"),
                FileDrv(STR_ftpfile, "NULL", "ftp_file_open", trunc),
                MemDrv(STR_ftpcompress, "NULL", "ftp_compress_open", "NULL",
                       "mem_close_free") >>
      shm == << Drv(STR_shmem, "smem_init", "smem_shutdown", "smem_setoptions",
                    "smem_getoptions", "smem_getversion", "NULL", "smem_open",
                    "smem_create", "NULL", "smem_close", "smem_remove",
                    "smem_size", "smem_flush", "smem_seek", "smem_read",
                    "smem_write") >>
  IN  std \o (IF b.net THEN net ELSE << >>) \o (IF b.shmem THEN shm ELSE << >>)

\* strncpy(dst, prefix, MAX_PREFIX_LEN); dst[MAX_PREFIX_LEN - 1] = 0;
StoredPrefix(prefix) == Prefix(prefix, MAX_PREFIX_LEN - 1)

\* the registry is full: no further driver is accepted
RegistryFull(n) == n + 1 = MAX_DRIVERS

\* fits_register_driver: d holds the prefix and the functions, initret is
\* what the init function returns when there is one.  Returns the world and
\* the status.
\* a registration that fills the entry before the init function has run
fits_register_driverEager(w, d, initret) ==
  IF RegistryFull(w.no_of_drivers)
  THEN [w |-> w, status |-> "TOO_MANY_DRIVERS"]
  ELSE IF d.prefix = NullStr
  THEN [w |-> w, status |-> "BAD_URL_PREFIX"]
  ELSE LET w1 == [w EXCEPT !.driverTable[w.no_of_drivers] =
                             [d EXCEPT !.prefix = StoredPrefix(d.prefix)],
                           !.trace = Append(@, Ev(d.init, w.no_of_drivers, 0,
                                                  d.prefix))]
       IN  IF initret # "OK"
           THEN [w |-> w1, status |-> initret]
           ELSE [w |-> [w1 EXCEPT !.no_of_drivers = @ + 1], status |-> "OK"]

fits_register_driver(w, d, initret) ==
  IF RegistryFull(w.no_of_drivers)
    THEN [w |-> w, status |-> "TOO_MANY_DRIVERS"]
  ELSE IF d.prefix = NullStr
    THEN [w |-> w, status |-> "BAD_URL_PREFIX"]
  ELSE
    LET w1 == IF d.init # "NULL"
              THEN [w EXCEPT !.trace = Append(@, Ev(d.init, w.no_of_drivers, 0,
                                                    d.prefix))]
              ELSE w
    IN  IF d.init # "NULL" /\ initret # "OK"
        THEN [w |-> w1, status |-> initret]
        ELSE [w |-> [w1 EXCEPT
                       !.driverTable[w.no_of_drivers] =
                          [d EXCEPT !.prefix = StoredPrefix(d.prefix)],
                       !.no_of_drivers = @ + 1],
              status |-> "OK"]

\* register the drivers ds[k..] until one registration fails; failat is the
\* position in ds of the driver whose init function fails (0: none)
RECURSIVE RegisterAll(_, _, _, _)
RegisterAll(w, ds, k, failat) ==
  IF k > Len(ds) THEN [w |-> w, status |-> "OK"]
  ELSE LET r == fits_register_driver(w, ds[k],
                   IF k = failat THEN "DRIVER_ERROR" ELSE "OK")
       IN  IF r.status # "OK" THEN r
           ELSE RegisterAll(r.w, ds, k + 1, failat)

\* fits_init_cfitsio: swapok: the byte order of the host is the compiled one
\* an initialisation that leaves the guard as it found it
fits_init_cfitsioAgain(w, swapok, failat) ==
  IF ~swapok THEN [w |-> w, status |-> "1"]
  ELSE RegisterAll(w, BuiltinDrivers(w.build), 1, failat)

fits_init_cfitsio(w, swapok, failat) ==
  LET w1 == [w EXCEPT !.need_to_initialize = FALSE]
  IN  IF ~swapok THEN [w |-> w1, status |-> "1"]
      ELSE RegisterAll(w1, BuiltinDrivers(w.build), 1, failat)

\* the loop of urltype2driver from driver ii down: "find matching driver;
\* search most recent drivers first"
RECURSIVE MatchingDriver(_, _, _)
MatchingDriver(w, urltype, ii) ==
  IF ii < 0 THEN [status |-> "NO_MATCHING_DRIVER", driver |-> 0]
  ELSE IF w.driverTable[ii].prefix = urltype
    THEN [status |-> "OK", driver |-> ii]
  ELSE MatchingDriver(w, urltype, ii - 1)

\* a lookup that searches the oldest drivers first
urltype2driverOldest(w, urltype) ==
  LET hits == {ii \in 0..(w.no_of_drivers - 1) :
                 w.driverTable[ii].prefix = urltype}
  IN  IF hits = {} THEN [status |-> "NO_MATCHING_DRIVER", driver |-> 0]
      ELSE [status |-> "OK",
            driver |-> CHOOSE ii \in hits : \A jj \in hits : ii <= jj]

\* urltype2driver(urltype, driver)
urltype2driver(w, urltype) == MatchingDriver(w, urltype, w.no_of_drivers - 1)

\* ------------------------------------------------------------------------
\* ffbins, ffbinr, fits_get_token: parse the binning specification
\* ------------------------------------------------------------------------

\* a double: (-1)^neg * mant / 10^scale, without trailing zeros in the
\* fraction; kind tells the two null values from every other number
Number(neg, mant, scale) ==
  [neg |-> neg, mant |-> mant, scale |-> scale, kind |-> "number"]

\* fitsio.h: the double -9.1191291391491E-36
DOUBLENULLVALUE ==
  [neg |-> TRUE, mant |-> 0, scale |-> 0, kind |-> "DOUBLENULLVALUE"]

\* fitsio.h: the float -9.11912E-36F, as the double it is compared as
FLOATNULLVALUE ==
  [neg |-> TRUE, mant |-> 0, scale |-> 0, kind |-> "FLOATNULLVALUE"]

\* The decimal fractions that strtod rounds to one of the two null values:
\* NullZeros zeros after the point, then digits between Low and High, both
\* included.  The bounds are exact for a fraction of at most NullDigits
\* digits, which is more than a token[FLEN_VALUE] holds.
NullZeros == 35

FloatNullLow ==
  <<"9","1","1","9","1","1","9","8","4","0","5","9","6","1","5","2","3","0",
    "9","8","4","1","7","9","3","1","7","8","8","1","2","1","1","9","1">>

FloatNullHigh ==
  <<"9","1","1","9","1","1","9","8","4","0","5","9","6","1","5","3","6","4",
    "6","2","2","4","1","4","8","2","2","4","9","0","9","9","4","2","1">>

DoubleNullLow ==
  <<"9","1","1","9","1","2","9","1","3","9","1","4","9","0","9","9","7","0",
    "2","0","9","7","5","6","7","0","5","0","6","7","3","9","3","5","1">>

DoubleNullHigh ==
  <<"9","1","1","9","1","2","9","1","3","9","1","4","9","1","0","1","0","3",
    "8","4","7","9","9","2","2","0","9","6","7","7","1","7","5","8","0">>

\* the digits of a fraction that are compared: the zeros and the digits of
\* a bound
NullDigits == NullZeros + Len(FloatNullLow)

\* the fraction digits ds, cut or filled with zeros to NullDigits digits
Fraction(ds) ==
  [i \in 1..NullDigits |-> IF i <= Len(ds) THEN ds[i] ELSE "0"]

\* the fraction that has the digits of a bound after the zeros
Bound(ds) ==
  [i \in 1..NullDigits |-> IF i <= NullZeros THEN "0" ELSE ds[i - NullZeros]]

\* a <= b for two runs of digits of the same length
DigitsLeq(a, b) ==
  \A i \in 1..Len(a) :
    (\A j \in 1..(i - 1) : a[j] = b[j]) => DigitValue(a[i]) <= DigitValue(b[i])

\* the number -int.frac lies between -0.low and -0.high
Between(int, frac, low, high) ==
  /\ \A i \in 1..Len(int) : int[i] = "0"
  /\ DigitsLeq(Bound(low), Fraction(frac))
  /\ DigitsLeq(Fraction(frac), Bound(high))

RECURSIVE StripTrailingZeros(_)
StripTrailingZeros(ds) ==
  IF Len(ds) > 0 /\ ds[Len(ds)] = "0"
  THEN StripTrailingZeros(SubSeq(ds, 1, Len(ds) - 1)) ELSE ds

\* strtod(token, NULL) for a token of digits, '.' and '-': the longest
\* leading part that is a number is converted, 0 when there is none.  A
\* text that rounds to one of the two null values gives that value, so that
\* two results are equal exactly when the doubles are.
strtod(token) ==
  LET neg  == Len(token) > 0 /\ token[1] = "-"
      u    == IF neg THEN Tail(token) ELSE token
      ni   == strspn(u, Digits)
      v    == Suffix(u, ni + 1)
      nf   == IF Cur(v) = "." THEN strspn(Tail(v), Digits) ELSE 0
      frac == StripTrailingZeros(SubSeq(v, 2, nf + 1))
  IN  IF ni + nf = 0 THEN Number(FALSE, 0, 0)
      ELSE IF neg /\ Between(SubSeq(u, 1, ni), frac, FloatNullLow,
                             FloatNullHigh)
        THEN FLOATNULLVALUE
      ELSE IF neg /\ Between(SubSeq(u, 1, ni), frac, DoubleNullLow,
                             DoubleNullHigh)
        THEN DOUBLENULLVALUE
      ELSE Number(neg, DecimalValue(SubSeq(u, 1, ni) \o frac), Len(frac))

\* fits_get_token(ptr, delimiter, token, isanumber): isnum is the value
\* *isanumber has before the call, which an empty token leaves alone.  ub:
\* the token does not fit the token[FLEN_VALUE] of ffbinr, the only caller.
fits_get_token(ptr, delimiter, isnum) ==
  LET p    == SkipBlanks(ptr)
      slen == strcspn(p, delimiter)
      tok  == SubSeq(p, 1, slen)
  IN  [ub |-> Overflows(tok, FLEN_VALUE), token |-> tok,
       ptr |-> Suffix(p, slen + 1), slen |-> slen,
       isanumber |-> IF slen > 0
                     THEN \A i \in 1..slen : tok[i] \in Digits \cup {".", "-"}
                     ELSE isnum]

\* the outputs of ffbinr as the caller passed them in; ub: a token did not
\* fit the local token[FLEN_VALUE]
BinrOut(colname, minin, maxin, binsizein, minname, maxname, binname) ==
  [ub |-> FALSE, colname |-> colname, minin |-> minin, maxin |-> maxin,
   binsizein |-> binsizein, minname |-> minname, maxname |-> maxname,
   binname |-> binname]

\* the outputs c after the token t was copied into the local token
Token(c, t) == [c EXCEPT !.ub = @ \/ t.ub]

\* ffbinr from the token t3 that holds the binsize on: c2 holds the outputs
\* with the max value
BinrSize(c2, t3) ==
  [ptr |-> t3.ptr,
   out |-> IF t3.slen = 0 THEN c2
           ELSE IF ~t3.isanumber
             THEN [Token(c2, t3) EXCEPT !.binname = t3.token]
           ELSE [Token(c2, t3) EXCEPT !.binsizein = strtod(t3.token)]]

\* ffbinr from the test of the character after the max value on: t2 is the
\* token that holds it, c2 the outputs with it
BinrStep(t2, c2) ==
  IF Cur(t2.ptr) # ":" THEN [ptr |-> t2.ptr, out |-> c2]
  ELSE BinrSize(c2, fits_get_token(Tail(t2.ptr), {" ", ",", ":", ";"}, FALSE))

\* ffbinr from the token t2 that holds the max value on
BinrMaxToken(t2, c) ==
  BinrStep(t2, IF t2.slen = 0 THEN c
               ELSE IF ~t2.isanumber
                 THEN [Token(c, t2) EXCEPT !.maxname = t2.token]
               ELSE [Token(c, t2) EXCEPT !.maxin = strtod(t2.token)])

\* ffbinr from the token that holds the max value on
BinrMax(p, c) ==
  BinrMaxToken(fits_get_token(Tail(p), {" ", ",", ":", ";"}, FALSE), c)

\* ffbinr from the test of the character after the first value on: t is the
\* token that holds the min value or the binsize
BinrRange(t, c) ==
  IF Cur(t.ptr) # ":"
    THEN [ptr |-> t.ptr,
          out |-> IF ~t.isanumber
                    THEN [Token(c, t) EXCEPT !.binname = t.token]
                  ELSE [Token(c, t) EXCEPT !.binsizein = strtod(t.token)]]
  ELSE BinrMax(t.ptr,
               IF t.slen = 0 THEN Token(c, t)
               ELSE IF ~t.isanumber
                 THEN [Token(c, t) EXCEPT !.minname = t.token]
               ELSE [Token(c, t) EXCEPT !.minin = strtod(t.token)])

\* ffbinr from the first token t1 on
BinrFirst(cur0, t1) ==
  LET cur == Token(cur0, t1)
      c1 == [cur EXCEPT
               !.colname = IF Cur(t1.token) = "#" /\ Len(t1.token) > 1
                              /\ isdigit(t1.token[2])
                           THEN Tail(t1.token) ELSE t1.token]
      \* the token is a column name
      named == ~t1.isanumber /\ Cur(t1.ptr) # ":"
  IN  IF t1.slen = 0 /\ Cur(t1.ptr) \in {"NUL", ",", ";"}
        THEN [ptr |-> t1.ptr, out |-> cur0]
      ELSE IF named /\ Cur(t1.ptr) # "="
        THEN [ptr |-> t1.ptr, out |-> c1]
      ELSE BinrRange(IF named
                     THEN fits_get_token(Tail(t1.ptr), {" ", ",", ":", ";"},
                                         t1.isanumber)
                     ELSE t1,
                     IF named THEN c1 ELSE cur)

\* ffbinr(ptr, colname, minin, maxin, binsizein, minname, maxname, binname,
\* status): cur holds the outputs as they are before the call, garbage is
\* the value of the local isanumber before it is first assigned; each call
\* has a local of its own.  Gives the
\* moved pointer and the outputs; the status is never changed.  ub: a token
\* of FLEN_VALUE characters or more was copied into the local token.
BinrDone(r) == [ub |-> r.out.ub, ptr |-> r.ptr, out |-> r.out]

ffbinr(ptr, cur, status, garbage) ==
  IF status # "OK" THEN [ub |-> FALSE, ptr |-> ptr, out |-> cur]
  ELSE BinrDone(BinrFirst(cur, fits_get_token(ptr, {" ", ",", "=", ":", ";"},
                                             garbage)))

\* the number of histogram axes ffbins can describe
MaxAxes == 4

\* what the uninitialised locals of the calls of ffbinr that one call of
\* ffbins makes can hold, in the order of the calls: one call for each axis
\* and one for the weight at most
Garbages == [1..(MaxAxes + 1) -> BOOLEAN]

\* every call of ffbinr finds a zero in its local
NoGarbage == [i \in 1..(MaxAxes + 1) |-> FALSE]

\* the size of the local tmpname of ffbins, which takes the names that
\* ffbinr gives and ffbins has no use for
TmpnameLen == 30

\* the outputs of ffbins after "set the default values"; ub: the parse read
\* or wrote outside an object
BinsDefault ==
  [status |-> "OK", ub |-> FALSE, written |-> TRUE,
   colname |-> [i \in 0..(MaxAxes - 1) |-> << >>],
   minin |-> [i \in 0..(MaxAxes - 1) |-> DOUBLENULLVALUE],
   maxin |-> [i \in 0..(MaxAxes - 1) |-> DOUBLENULLVALUE],
   binsizein |-> [i \in 0..(MaxAxes - 1) |-> DOUBLENULLVALUE],
   minname |-> [i \in 0..(MaxAxes - 1) |-> << >>],
   maxname |-> [i \in 0..(MaxAxes - 1) |-> << >>],
   binname |-> [i \in 0..(MaxAxes - 1) |-> << >>],
   imagetype |-> "TINT", haxis |-> 2,
   weight |-> Number(FALSE, 1, 0), wtname |-> << >>, recip |-> 0]

\* the outputs of ffbins for axis ii as ffbinr gets them
BinsAxis(b, ii) ==
  BinrOut(b.colname[ii], b.minin[ii], b.maxin[ii], b.binsizein[ii],
          b.minname[ii], b.maxname[ii], b.binname[ii])

\* store what ffbinr gave for axis ii
BinsSetAxis(b, ii, c) ==
  [b EXCEPT !.colname[ii] = c.colname, !.minin[ii] = c.minin,
            !.maxin[ii] = c.maxin, !.binsizein[ii] = c.binsizein,
            !.minname[ii] = c.minname, !.maxname[ii] = c.maxname,
            !.binname[ii] = c.binname, !.ub = @ \/ c.ub]

BinsError(b) == [b EXCEPT !.status = "URL_PARSE_ERROR"]

\* ffbins from what ffbinr gave for the weight on: ptr is at the label
\* getweight, rc tells a '/' in front of the weight, r is what ffbinr gave
BinsWeighted(ptr, b, rc, r) ==
  LET \* recip = 0 makes the pointer null, *recip = 1 then writes through it
      \* (rc); the names of the range of the weight went to tmpname[30]
      b3 == IF Cur(ptr) = ";"
            THEN [b EXCEPT !.wtname = r.out.colname,
                           !.weight = r.out.binsizein,
                           !.ub = \/ @ \/ rc \/ r.ub
                                  \/ Overflows(r.out.minname, TmpnameLen)
                                  \/ Overflows(r.out.maxname, TmpnameLen)
                                  \/ Overflows(r.out.binname, TmpnameLen)]
            ELSE b
      p3 == IF Cur(ptr) = ";" THEN SkipBlanks(r.ptr) ELSE SkipBlanks(ptr)
  IN  IF Cur(p3) # "NUL" THEN BinsError(b3) ELSE b3

\* ffbins from the label getweight on; garbage holds, for this call of ffbinr
\* and those after it, what the local isanumber of the call starts with
BinsWeight(ptr, b, garbage) ==
  LET p1 == SkipBlanks(Tail(ptr))
      rc == Cur(p1) = "/"
  IN  BinsWeighted(ptr, b, rc,
                   ffbinr(IF rc THEN SkipBlanks(Tail(p1)) ELSE p1,
                          BinrOut(b.wtname, DOUBLENULLVALUE, DOUBLENULLVALUE,
                                  b.weight, << >>, << >>, << >>),
                          "OK", Head(garbage)))

\* the loop over the names in parentheses: ptr is at the '(', ',' or ' ' in
\* front of name ii.  ok is FALSE when the loop ends with ii == 4.
RECURSIVE BinsNames(_, _, _)
RECURSIVE BinsStored(_, _, _)
BinsNames(ptr, ii, b) ==
  LET p1   == SkipBlanks(Tail(ptr))
      slen == strcspn(p1, {" ", ",", ")"})
  IN  \* ptr++ at the terminator moves past the end of the string
      IF Cur(ptr) = "NUL"
        THEN [ok |-> FALSE, ptr |-> ptr, b |-> [b EXCEPT !.ub = TRUE]]
      ELSE BinsStored(SkipBlanks(Suffix(p1, slen + 1)), ii,
                      [b EXCEPT !.colname[ii] = SubSeq(p1, 1, slen),
                                !.ub = @ \/ slen >= FLEN_VALUE])

\* the loop over the names from the stored name ii on: p2 is at the
\* character after it, b1 holds the outputs with it
BinsStored(p2, ii, b1) ==
  IF Cur(p2) = ")"
    THEN [ok |-> TRUE, ptr |-> p2, b |-> [b1 EXCEPT !.haxis = ii + 1]]
  ELSE IF ii + 1 = MaxAxes THEN [ok |-> FALSE, ptr |-> p2, b |-> b1]
  ELSE BinsNames(p2, ii + 1, b1)

\* a copy of the common range that stops at the first axis
BinsCommonFirst(n, r, garbage) ==
  LET b2 == [n.b EXCEPT
               !.minin[0] = r.out.minin, !.maxin[0] = r.out.maxin,
               !.binsizein[0] = r.out.binsizein,
               !.minname[0] = r.out.minname, !.maxname[0] = r.out.maxname,
               !.binname[0] = r.out.binname,
               !.ub = @ \/ r.ub \/ Overflows(r.out.colname, TmpnameLen)]
      p3 == SkipBlanks(r.ptr)
  IN  IF Cur(p3) = ";" THEN BinsWeight(p3, b2, garbage)
      ELSE IF Cur(p3) # "NUL" THEN BinsError(b2)
      ELSE b2

\* ffbins from what ffbinr gave for the ranges common to the n.b.haxis axes
\* on: n is what the loop over the names gave, r what ffbinr gave
BinsCommon(n, r, garbage) ==
  LET b2 == [n.b EXCEPT
               !.minin = [i \in 0..(MaxAxes - 1) |->
                            IF i < n.b.haxis THEN r.out.minin
                            ELSE @[i]],
               !.maxin = [i \in 0..(MaxAxes - 1) |->
                            IF i < n.b.haxis THEN r.out.maxin
                            ELSE @[i]],
               !.binsizein = [i \in 0..(MaxAxes - 1) |->
                            IF i < n.b.haxis THEN r.out.binsizein
                            ELSE @[i]],
               !.minname = [i \in 0..(MaxAxes - 1) |->
                            IF i < n.b.haxis THEN r.out.minname
                            ELSE @[i]],
               !.maxname = [i \in 0..(MaxAxes - 1) |->
                            IF i < n.b.haxis THEN r.out.maxname
                            ELSE @[i]],
               !.binname = [i \in 0..(MaxAxes - 1) |->
                            IF i < n.b.haxis THEN r.out.binname
                            ELSE @[i]],
               \* the column name of the range went to tmpname
               !.ub = @ \/ r.ub \/ Overflows(r.out.colname, TmpnameLen)]
      p3 == SkipBlanks(r.ptr)
  IN  IF Cur(p3) = ";" THEN BinsWeight(p3, b2, garbage)
      ELSE IF Cur(p3) # "NUL" THEN BinsError(b2)
      ELSE b2

\* ffbins from the end of the loop over the names on: n is what the loop
\* gave
BinsNamed(n, garbage) ==
  LET p1 == SkipBlanks(Tail(n.ptr))
  IN  IF ~n.ok THEN BinsError(n.b)
      ELSE IF Cur(p1) = "NUL" THEN n.b
      ELSE IF Cur(p1) # "=" THEN BinsError(n.b)
      ELSE BinsCommon(n, ffbinr(SkipBlanks(Tail(p1)),
                                BinrOut(<< >>, n.b.minin[0], n.b.maxin[0],
                                        n.b.binsizein[0], n.b.minname[0],
                                        n.b.maxname[0], n.b.binname[0]),
                                "OK", Head(garbage)),
                      Tail(garbage))

\* ffbins for a list of column names in ( ): ptr is at the '('
BinsParen(ptr, b, garbage) == BinsNamed(BinsNames(ptr, 0, b), garbage)

\* the loop over the ranges "XCOL = min:max:binsize, YCOL = ...": ptr is at
\* the range of axis ii.  ok is FALSE when the loop ends with ii == 4 or at
\* a character that cannot follow a range.
RECURSIVE BinsRanges(_, _, _, _)
RECURSIVE BinsRange(_, _, _, _)
BinsRanges(ptr, ii, b, garbage) ==
  BinsRange(ii, b, ffbinr(ptr, BinsAxis(b, ii), "OK", Head(garbage)),
            Tail(garbage))

\* the loop over the ranges from what ffbinr gave for axis ii on
BinsRange(ii, b, r, garbage) ==
  LET \* the outputs with the range of axis ii
      b1 == BinsSetAxis(b, ii, r.out)
      c  == Cur(r.ptr)
      p1 == SkipBlanks(r.ptr)
      p2 == IF c = " " THEN (IF Cur(p1) = "," THEN Tail(p1) ELSE p1)
            ELSE Tail(r.ptr)
  IN  IF c \in {"NUL", ";"} \/ (c = " " /\ Cur(p1) \in {"NUL", ";"})
        THEN [ok |-> TRUE, ii |-> ii, b |-> b1,
              ptr |-> IF c = " " THEN p1 ELSE r.ptr]
      ELSE IF c \notin {" ", ","}
        THEN [ok |-> FALSE, ii |-> ii, b |-> b1, ptr |-> r.ptr]
      ELSE IF ii + 1 = MaxAxes
        THEN [ok |-> FALSE, ii |-> MaxAxes, b |-> b1, ptr |-> p2]
      ELSE BinsRanges(p2, ii + 1, b1, garbage)

\* if (*haxis == 1 && *colname[0] == '\0' && minin[0] == FLOATNULLVALUE &&
\*     maxin[0] == FLOATNULLVALUE)
SingleNumber(b) ==
  /\ b.haxis = 1
  /\ b.colname[0] = << >>
  /\ b.minin[0] = FLOATNULLVALUE
  /\ b.maxin[0] = FLOATNULLVALUE

\* ffbins from the end of the loop over the ranges on: l is what the loop
\* gave, after l.ii + 1 calls of ffbinr; the call for the weight is the next
BinsAxes(l, garbage) ==
  LET \* the outputs with the number of axes that the loop found
      b1 == [l.b EXCEPT !.haxis = l.ii + 1]
  IN  IF ~l.ok THEN BinsError(l.b)
      ELSE BinsWeight(l.ptr,
                      IF SingleNumber(b1)
                      THEN [b1 EXCEPT !.haxis = 2,
                                      !.binsizein[1] = b1.binsizein[0]]
                      ELSE b1,
                      SubSeq(garbage, l.ii + 2, Len(garbage)))

\* ffbins for ranges without a list of names in ( )
BinsList(ptr, b, garbage) == BinsAxes(BinsRanges(ptr, 0, b, garbage), garbage)

\* the image type that the letter after "bin" selects
BinsType(c) ==
  CASE c = "i" -> "TSHORT" [] c = "j" -> "TINT" [] c = "r" -> "TFLOAT"
    [] c = "d" -> "TDOUBLE" [] c = "b" -> "TBYTE" [] OTHER -> "TINT"

\* ffbins from the text p2 after "bin", the datatype letter and the blanks
\* on
BinsSpecs(p2, b1, garbage) ==
  IF Cur(p2) = "NUL" THEN b1
  ELSE IF Cur(p2) = "(" THEN BinsParen(p2, b1, garbage)
  ELSE BinsList(p2, b1, garbage)

\* ffbins(binspec, imagetype, haxis, colname, minin, maxin, binsizein,
\* minname, maxname, binname, weight, wtname, recip, status); with a
\* status > 0 on entry no output is written, which the caller sees as the
\* status alone
ffbins(binspec, status, garbage) ==
  LET p0 == Suffix(binspec, 4)
      p1 == IF Cur(p0) \in {"i", "j", "r", "d", "b"} THEN Tail(p0) ELSE p0
      b1 == [BinsDefault EXCEPT !.imagetype = BinsType(Cur(p0))]
  IN  IF status # "OK"
        THEN [BinsDefault EXCEPT !.status = status, !.written = FALSE]
      \* binspec + 3 is outside a string shorter than "bin"
      ELSE IF Len(binspec) < 3 THEN [BinsDefault EXCEPT !.ub = TRUE]
      ELSE IF Cur(p1) = "NUL" THEN b1
      ELSE IF Cur(p1) # " " THEN BinsError(b1)
      ELSE BinsSpecs(SkipBlanks(p1), b1, garbage)

\* ------------------------------------------------------------------------
\* Structures, memory and the collaborators outside cfileio.c
\* ------------------------------------------------------------------------

\* a FITSfile structure that was never allocated.  mem is "none", "live" or
\* "freed"; origin (which routine built it) and deleted (ffdelt released it)
\* are history, not fields of the C structure.
NoFile ==
  [mem |-> "none", filehandle |-> 0, driver |-> 0, filename |-> NullStr,
   filesize |-> 0, logfilesize |-> 0, writemode |-> 0,
   datastart |-> "ZERO", curbuf |-> 0, open_count |-> 0,
   validcode |-> "ZERO", origin |-> "none", deleted |-> FALSE]

\* a fitsfile structure that was never allocated; origin, opened_as and
\* closed are history: the routine that allocated it, the name given to the
\* ffopen call that returned this Handle with a status of 0, and that ffclos
\* or ffdelt was called for it and left the structure allocated
NoHandle ==
  [mem |-> "none", Fptr |-> 0, HDUposition |-> 0, origin |-> "none",
   opened_as |-> NullStr, closed |-> FALSE]

\* the size in bytes that a driver's size function reports, in 2880-byte
\* records
SizeRecords == 1

\* the address calloc returns for the next structure: structures are not
\* reused within a run, so that a dangling pointer stays recognisable
NextFile(w) ==
  IF \E i \in 1..MaxFiles : w.Fptr[i].mem = "none"
  THEN CHOOSE i \in 1..MaxFiles :
         w.Fptr[i].mem = "none" /\ \A j \in 1..(i - 1) : w.Fptr[j].mem # "none"
  ELSE 0

NextHandle(w) ==
  IF \E i \in 1..MaxHandles : w.fptr[i].mem = "none"
  THEN CHOOSE i \in 1..MaxHandles :
         w.fptr[i].mem = "none" /\ \A j \in 1..(i - 1) : w.fptr[j].mem # "none"
  ELSE 0

NextDH(w) ==
  IF \E i \in 1..MaxDH : w.drvh[i].state = "unused"
  THEN CHOOSE i \in 1..MaxDH :
         w.drvh[i].state = "unused"
         /\ \A j \in 1..(i - 1) : w.drvh[j].state # "unused"
  ELSE 0

FreeFiles(w)   == Cardinality({i \in 1..MaxFiles : w.Fptr[i].mem = "none"})
FreeHandles(w) == Cardinality({i \in 1..MaxHandles : w.fptr[i].mem = "none"})
FreeDH(w)      == Cardinality({i \in 1..MaxDH : w.drvh[i].state = "unused"})

Trace(w, e) == [w EXCEPT !.trace = Append(@, e)]

\* a driver's open, create or mem_openmem succeeded: it mints a handle
DriverMint(w, fn, driver, str) ==
  LET k == NextDH(w)
  IN  [Trace(w, Ev(fn, driver, k, str)) EXCEPT
         !.drvh[k] = [state |-> "open", closes |-> 0, driver |-> driver]]

\* (*driverTable[driver].close)(handle): calling through a NULL entry is
\* undefined.  The count of closes is kept up to 2.
DriverClose(w, driver, handle) ==
  LET fn == w.driverTable[driver].close
  IN  IF fn = "NULL" THEN [w EXCEPT !.ub = TRUE]
      ELSE [Trace(w, Ev(fn, driver, handle, << >>)) EXCEPT
              !.drvh[handle].state = "closed",
              !.drvh[handle].closes = IF @ < 2 THEN @ + 1 ELSE @]

\* ffldrc succeeded for file f: f is now the current file of an I/O buffer.
\* The buffer taken is the lowest one without a file, buffer 0 if all have.
BufLoad(w, f) ==
  IF \E i \in 0..(NIOBUF - 1) : w.bufptr[i] = f THEN w
  ELSE LET free == {i \in 0..(NIOBUF - 1) : w.bufptr[i] = 0}
           slot == IF free = {} THEN 0
                   ELSE CHOOSE i \in free : \A j \in free : i <= j
       IN  [w EXCEPT !.bufptr[slot] = f, !.Fptr[f].curbuf = slot]

\* ffflsh(fptr, TRUE, status): flush and disassociate IO buffers
BufClear(w, f) ==
  [w EXCEPT !.bufptr = [i \in 0..(NIOBUF - 1) |->
                          IF w.bufptr[i] = f THEN 0 ELSE w.bufptr[i]]]

\* ffcurbuf(ii, &oldFptr)
ffcurbuf(w, ii) == w.bufptr[ii]

\* a parse wrote outside a buffer, and this time the write does harm
Corrupts(o, r) == r.ub /\ o.harm

\* the outputs r of a parse when the caller's buffer could not hold them
PastBuffer(r, over) == [r EXCEPT !.ub = @ \/ over]

\* what ffiurl gave when the names and filters went into buffers of
\* FLEN_FILENAME characters of the caller
IurlLocal(n) == PastBuffer(n, n.longest >= FLEN_FILENAME)

\* what ffexts gave when the name went into an extname[size]
ExtsLocal(e, size) == PastBuffer(e, Overflows(e.extname, size))

\* what ffourl gave when the name went into an outfile[FLEN_FILENAME]
OurlLocal(pu) == PastBuffer(pu, Overflows(pu.outfile, FLEN_FILENAME))

\* the outcome of a step that the oracle o can make fail
Fails(o, step) == o.fail = step

\* ------------------------------------------------------------------------
\* ffclos, ffdelt, ffreopen
\* ------------------------------------------------------------------------

\* the open_count with which the last user has gone
NoOtherUser(count) == count = 0

\* free the filename and both structures of Handle h
Release(w, h) ==
  LET f == w.fptr[h].Fptr
  IN  [w EXCEPT !.Fptr[f].mem = "freed", !.Fptr[f].filename = NullStr,
                !.Fptr[f].validcode = "ZERO", !.fptr[h].mem = "freed"]

\* what the check of the magic value gives for Handle h: "valid", the status
\* for the caller, or "ub" when the check itself reads freed memory and the
\* read does not happen to give a zero
CheckHandle(w, h, o) ==
  IF h = 0 THEN "NULL_INPUT_PTR"
  ELSE IF w.fptr[h].mem # "live" \/ w.Fptr[w.fptr[h].Fptr].mem # "live"
    THEN IF o.stale = "zero" THEN "BAD_FILEPTR" ELSE "ub"
  ELSE IF w.Fptr[w.fptr[h].Fptr].validcode # "VALIDSTRUC" THEN "BAD_FILEPTR"
  ELSE "valid"

\* ffchdu(fptr, status); ffflsh(fptr, TRUE, status);
CloseHDU(w, h, status, o) ==
  LET f  == w.fptr[h].Fptr
      w1 == Trace(Trace(w, Ev("ffchdu", 0, h, << >>)),
                  Ev("ffflsh", 0, h, << >>))
  IN  [w |-> BufClear(w1, f),
       status |-> IF status = "OK" /\ Fails(o, "ffchdu")
                  THEN "EXTERNAL_ERROR" ELSE status]

\* ffclos from the decrement of the open_count on: c is what ffchdu and
\* ffflsh left
\* a close that reports its own failure over an earlier error
ClosFlushedOverwrites(h, c, o) ==
  LET f  == c.w.fptr[h].Fptr
      w2 == [c.w EXCEPT !.Fptr[f].open_count = @ - 1,
                        !.fptr[h].closed = TRUE]
  IN  IF NoOtherUser(w2.Fptr[f].open_count)
        THEN [w |-> Release(DriverClose(w2, w2.Fptr[f].driver,
                                        w2.Fptr[f].filehandle), h),
              status |-> IF ~o.dclose THEN "FILE_NOT_CLOSED" ELSE c.status]
      ELSE [w |-> w2, status |-> c.status]

ClosFlushed(h, c, o) ==
  LET f  == c.w.fptr[h].Fptr
      \* the world with one user less of the file
      w2 == [c.w EXCEPT !.Fptr[f].open_count = @ - 1,
                        !.fptr[h].closed = TRUE]
  IN  IF NoOtherUser(w2.Fptr[f].open_count)
        THEN [w |-> Release(DriverClose(w2, w2.Fptr[f].driver,
                                        w2.Fptr[f].filehandle), h),
              status |-> IF ~o.dclose /\ c.status = "OK"
                         THEN "FILE_NOT_CLOSED" ELSE c.status]
      ELSE [w |-> w2, status |-> c.status]

\* ffclos(fptr, status)
ffclos(w, h, status, o) ==
  LET chk == CheckHandle(w, h, o)
  IN  IF chk = "ub" THEN [w |-> [w EXCEPT !.ub = TRUE], status |-> status]
      ELSE IF chk # "valid" THEN [w |-> w, status |-> chk]
      ELSE ClosFlushed(h, CloseHDU(w, h, status, o), o)

\* ffdelt from the call of remove() on: remove() was called with the name
\* that the parse pu gave; with a status > 0 ffiurl returns at once and
\* remove() gets the uninitialised buffer
DeltRemoved(w, h, w3, st3, pu, o) ==
  LET f   == w.fptr[h].Fptr
      rm  == w.driverTable[w.Fptr[f].driver].remove
      st4 == IF Fails(o, "remove") /\ pu.status = "OK"
             THEN "FILE_NOT_CLOSED" ELSE pu.status
      w5  == [Release(Trace(w3, Ev(rm, w.Fptr[f].driver, 0,
                                   IF st3 = "OK" THEN pu.infile
                                   ELSE <<"GARBAGE">>)), h)
                EXCEPT !.Fptr[f].deleted = TRUE]
  IN  [w |-> [w5 EXCEPT
                !.ub = @ \/ (st3 # "OK" /\ o.harm) \/ Corrupts(o, pu)],
       status |-> st4]

\* ffdelt from the test of the remove function on: the driver has closed
\* the file, which left the world w3 and the status st3
DeltClosed(w, h, w3, st3, o) ==
  LET f  == w.fptr[h].Fptr
      rm == w.driverTable[w.Fptr[f].driver].remove
  IN  IF rm = "NULL"
        THEN [w |-> [Release(w3, h) EXCEPT !.Fptr[f].deleted = TRUE],
              status |-> st3]
      ELSE IF Fails(o, "alloc_basename")
        THEN [w |-> [w3 EXCEPT !.Fptr[f].deleted = TRUE,
                               !.fptr[h].closed = TRUE],
              status |-> "MEMORY_ALLOCATION"]
      ELSE DeltRemoved(w, h, w3, st3,
                       ffiurl(w.Fptr[f].filename, {"infile"}, st3,
                              Fails(o, "nomem_basename"), w.build.order), o)

\* ffdelt from the close of the file on: c is what ffchdu and ffflsh left
DeltFlushed(w, h, c, o) ==
  LET f == w.fptr[h].Fptr
  IN  DeltClosed(w, h,
                 DriverClose(c.w, c.w.Fptr[f].driver, c.w.Fptr[f].filehandle),
                 IF ~o.dclose /\ c.status = "OK" THEN "FILE_NOT_CLOSED"
                 ELSE c.status, o)

\* ffdelt(fptr, status): close and DELETE the FITS file
ffdelt(w, h, status, o) ==
  LET chk == CheckHandle(w, h, o)
  IN  IF chk = "ub" THEN [w |-> [w EXCEPT !.ub = TRUE], status |-> status]
      ELSE IF chk # "valid" THEN [w |-> w, status |-> chk]
      ELSE DeltFlushed(w, h, CloseHDU(w, h, status, o), o)

\* a reopen or an attach that forgets to count the new user
AddUserUncounted(F) == F

\* the structure gets one more user
AddUser(F) == [F EXCEPT !.open_count = @ + 1]

\* ffreopen(openfptr, newfptr, status)
ffreopen(w, openfptr, status, o) ==
  LET chk == CheckHandle(w, openfptr, o)
      f   == w.fptr[openfptr].Fptr
      n   == NextHandle(w)
  IN  IF status # "OK" THEN [w |-> w, status |-> status, fptr |-> 0]
      ELSE IF chk = "ub"
        THEN [w |-> [w EXCEPT !.ub = TRUE], status |-> status, fptr |-> 0]
      ELSE IF chk # "valid" THEN [w |-> w, status |-> chk, fptr |-> 0]
      \* the result of calloc is used unchecked
      ELSE IF Fails(o, "alloc_fptr")
        THEN [w |-> [w EXCEPT !.ub = TRUE], status |-> status, fptr |-> 0]
      ELSE [w |-> [w EXCEPT
                     !.fptr[n] = [NoHandle EXCEPT !.mem = "live", !.Fptr = f,
                                                  !.HDUposition = 0,
                                                  !.origin = "ffreopen"],
                     !.Fptr[f] = AddUser(@)],
            status |-> status, fptr |-> n]

\* ------------------------------------------------------------------------
\* ffinit
\* ------------------------------------------------------------------------

\* if (need_to_initialize) *status = fits_init_cfitsio();
InitLibrary(w, o) ==
  IF w.need_to_initialize THEN fits_init_cfitsio(w, o.swapok, o.initfail)
  ELSE [w |-> w, status |-> "OK"]

\* the FITSfile structure ffinit fills in after calloc
CreatedFile(handle, driver, url) ==
  [NoFile EXCEPT !.mem = "live", !.filehandle = handle, !.driver = driver,
                 !.filename = url, !.filesize = 0, !.logfilesize = 0,
                 !.writemode = 1, !.datastart = "DATA_UNDEFINED",
                 !.curbuf = -1, !.validcode = "VALIDSTRUC",
                 !.origin = "ffinit"]

\* ffinit from the allocation of the structures on: w1 is the world with
\* the file that the driver created under the handle dh
InitCreated(w1, dh, h, f, url, driver, o) ==
  LET \* the world with the two structures filled in
      w2 == [w1 EXCEPT
               !.fptr[h] = [NoHandle EXCEPT !.mem = "live", !.Fptr = f,
                                            !.origin = "ffinit"],
               !.Fptr[f] = CreatedFile(dh, driver, url)]
  IN  IF Fails(o, "alloc_fptr") \/ Fails(o, "alloc_Fptr")
        THEN [w |-> DriverClose(w1, driver, dh),
              status |-> "MEMORY_ALLOCATION", fptr |-> 0]
      ELSE IF Fails(o, "alloc_name")
        THEN [w |-> DriverClose(w1, driver, dh),
              status |-> "FILE_NOT_CREATED", fptr |-> 0]
      ELSE IF Fails(o, "ffldrc")
        THEN [w |-> w2, status |-> "EXTERNAL_ERROR", fptr |-> h]
      ELSE [w |-> BufLoad(w2, f), status |-> "OK", fptr |-> h]

\* ffinit from the call of the driver's create function on
\* a creation that calls the create function without looking at it
InitCreateUnchecked(w, url, driver, outfile, o) ==
  InitCreated(DriverMint(w, w.driverTable[driver].create, driver, outfile),
              NextDH(w), NextHandle(w), NextFile(w), url, driver, o)

InitCreate(w, url, driver, outfile, o) ==
  LET d == w.driverTable[driver]
  IN  IF d.create = "NULL"
        THEN [w |-> w, status |-> "FILE_NOT_CREATED", fptr |-> 0]
      ELSE IF Fails(o, "create")
        THEN [w |-> Trace(w, Ev(d.create, driver, 0, outfile)),
              status |-> "DRIVER_ERROR", fptr |-> 0]
      ELSE InitCreated(DriverMint(w, d.create, driver, outfile), NextDH(w),
                       NextHandle(w), NextFile(w), url, driver, o)

\* ffinit from the removal of an old file on: drv is the driver for the
\* type of the parsed name pu
\* a creation that removes the old file whatever the name
InitDriverAlways(w, url, clobber, pu, drv, o) ==
  LET rm == w.driverTable[drv.driver].remove
  IN  IF drv.status # "OK"
        THEN [w |-> w, status |-> drv.status, fptr |-> 0]
      ELSE InitCreate(IF rm # "NULL"
                      THEN Trace(w, Ev(rm, drv.driver, 0, pu.outfile))
                      ELSE w,
                      url, drv.driver, pu.outfile, o)

InitDriver(w, url, clobber, pu, drv, o) ==
  LET rm == w.driverTable[drv.driver].remove
  IN  IF drv.status # "OK"
        THEN [w |-> w, status |-> drv.status, fptr |-> 0]
      ELSE InitCreate(IF clobber /\ rm # "NULL"
                      THEN Trace(w, Ev(rm, drv.driver, 0, pu.outfile))
                      ELSE w,
                      url, drv.driver, pu.outfile, o)

\* ffinit from the parse of the name on: pu is what ffourl gave
InitNamed(w, url, clobber, pu, o) ==
  IF Corrupts(o, pu)
    THEN [w |-> [w EXCEPT !.ub = TRUE], status |-> pu.status, fptr |-> 0]
  ELSE IF pu.status # "OK"
    THEN [w |-> w, status |-> pu.status, fptr |-> 0]
  ELSE InitDriver(w, url, clobber, pu, urltype2driver(w, pu.urltype), o)

\* ffinit from the initialization of the library on: lib is the library
\* after it
InitStarted(lib, name, o) ==
  LET url0    == SkipBlanks(name)
      clobber == url0 # << >> /\ url0[1] = "!"
      url     == IF clobber THEN Tail(url0) ELSE url0
  IN  IF lib.status # "OK"
        THEN [w |-> lib.w, status |-> lib.status, fptr |-> 0]
      ELSE IF url0 = << >>
        THEN [w |-> lib.w, status |-> "FILE_NOT_CREATED", fptr |-> 0]
      ELSE InitNamed(lib.w, url, clobber, OurlLocal(ffourl(url, "OK")), o)

\* ffinit(fptr, name, status)
ffinit(w0, name, status, o) ==
  IF status # "OK" THEN [w |-> w0, status |-> status, fptr |-> 0]
  ELSE InitStarted(InitLibrary(w0, o), name, o)

\* ------------------------------------------------------------------------
\* ffselect_table, and ffhist as ffopen describes it
\* ------------------------------------------------------------------------

\* the oracle without a failing step: ffhist is called in an environment
\* of its own
Quiet(o) == [o EXCEPT !.fail = "none"]

\* the oracle for the ffinit that creates the scratch file in memory
ScratchOracle(o) ==
  [o EXCEPT !.fail = CASE o.fail = "sel_create" -> "create"
                       [] o.fail = "sel_alloc_fptr" -> "alloc_fptr"
                       [] o.fail = "sel_alloc_Fptr" -> "alloc_Fptr"
                       [] o.fail = "sel_alloc_name" -> "alloc_name"
                       [] o.fail = "sel_ffldrc" -> "ffldrc"
                       [] OTHER -> "none"]

\* ffmahd / fits_movabs_hdu(fptr, hdunum, ...) succeeded
MoveTo(w, h, hdunum) ==
  [Trace(w, Ev("ffmahd", 0, h, << >>)) EXCEPT
     !.fptr[h].HDUposition = hdunum - 1]

\* fits_movabs_hdu(fptr, hdunum, NULL, status) that moves nowhere: it was
\* called with a status > 0, or the move failed
NotMoved(w, h) == Trace(w, Ev("ffmahd", 0, h, << >>))

\* fits_movabs_hdu(fptr, ii, NULL, status) for ii from from to to, each
\* of them to an HDU that the file has
RECURSIVE MovedThrough(_, _, _, _)
MovedThrough(w, h, from, to) ==
  IF from > to THEN w
  ELSE MovedThrough(MoveTo(w, h, from), h, from + 1, to)

\* cptr = expr + 1; ii = strlen(cptr); cptr[ii - 1] = '\0': the expression
\* without the brackets around it.  For an empty expr cptr is past the
\* terminator: strlen reads, and the assignment writes, outside the string.
Unbracketed(expr) ==
  [cptr |-> SubSeq(expr, 2, Len(expr) - 1), ub |-> expr = << >>]

\* ffselect_table from the close of the original file on: newptr is the
\* file in memory, c2 what the close left.  *fptr = newptr, and the move
\* back to the HDU of the table is called whatever the status.
SelectClosed(newptr, c2, hdunum, o) ==
  [w |-> IF c2.status = "OK" /\ ~Fails(o, "sel_moveback")
         THEN MoveTo(c2.w, newptr, hdunum) ELSE NotMoved(c2.w, newptr),
   status |-> IF c2.status = "OK" /\ Fails(o, "sel_moveback")
              THEN "EXTERNAL_ERROR" ELSE c2.status,
   fptr |-> newptr]

\* ffselect_table after a failed step: c1 is what ffclos(newptr, status)
\* left
SelectStopped(c1, h) == [w |-> c1.w, status |-> c1.status, fptr |-> h]

\* ffselect_table from "copy any remaining HDUs to the output file" on: w
\* is the world after fits_select_rows.  The loop moves *fptr to each of
\* the HDUs after the table, o.hdus being the number of HDUs of the file,
\* and ends with the move that fails: with END_OF_FILE, or at once with
\* another status (sel_tail).  A fits_copy_hdu that fails (sel_copy_hdu) is
\* the first one, and the next move is called with its status.
SelectTail(h, hdunum, newptr, w, o) ==
  IF Fails(o, "sel_tail")
    THEN SelectStopped(ffclos(NotMoved(w, h), newptr, "EXTERNAL_ERROR", o), h)
  ELSE IF Fails(o, "sel_copy_hdu") /\ o.hdus > hdunum
    THEN SelectStopped(ffclos(NotMoved(MoveTo(w, h, hdunum + 1), h), newptr,
                              "EXTERNAL_ERROR", o), h)
  \* close the original file and return ptr to the new image
  ELSE SelectClosed(newptr,
                    ffclos(NotMoved(MovedThrough(w, h, hdunum + 1, o.hdus), h),
                           h, "OK", o),
                    hdunum, o)

\* ffselect_table from fits_copy_header on: w is the world after the move
\* of *fptr to the HDU of the table
SelectHeader(h, expr, hdunum, newptr, w, o) ==
  IF Fails(o, "sel_copy_header") \/ Fails(o, "sel_ffrdef")
    THEN SelectStopped(ffclos(w, newptr, "EXTERNAL_ERROR", o), h)
  ELSE IF Unbracketed(expr).ub
    THEN [w |-> [w EXCEPT !.ub = TRUE], status |-> "OK", fptr |-> h]
  ELSE IF Fails(o, "sel_select_rows")
    THEN SelectStopped(ffclos(Trace(w, Ev("fits_select_rows", 0, h,
                                          Unbracketed(expr).cptr)),
                              newptr, "EXTERNAL_ERROR", o), h)
  ELSE SelectTail(h, hdunum, newptr,
                  Trace(w, Ev("fits_select_rows", 0, h, Unbracketed(expr).cptr)),
                  o)

\* ffselect_table from the copy of the HDUs on: r is the ffinit of the file
\* in memory, r.fptr is newptr.  "copy all preceding extensions to the
\* output file": *fptr moves to each of them, the first copy being the one
\* that fails (sel_copy_hdu), and then to the HDU of the table.
SelectScratch(h, expr, hdunum, r, o) ==
  IF r.status # "OK"
    THEN [w |-> r.w, status |-> r.status, fptr |-> h]
  ELSE IF hdunum > 1 /\ Fails(o, "sel_copy_hdu")
    THEN SelectStopped(ffclos(MoveTo(r.w, h, 1), r.fptr, "EXTERNAL_ERROR", o),
                       h)
  ELSE SelectHeader(h, expr, hdunum, r.fptr,
                    MovedThrough(r.w, h, 1, hdunum), o)

\* ffselect_table(fptr, expr, status): h is *fptr on entry
ffselect_table(w, h, expr, status, o) ==
  SelectScratch(h, expr, w.fptr[h].HDUposition + 1,
                ffinit(w, STR_mem, status, ScratchOracle(o)), o)

\* the oracle for the ffinit of the histogram
HistOracle(o) ==
  [o EXCEPT !.fail = CASE o.fail = "hist_create" -> "create"
                       [] o.fail = "hist_ffldrc" -> "ffldrc"
                       [] OTHER -> "none"]

\* ffhist when the table or the histogram is closed: c is what ffclos left,
\* ptr the Handle the caller is left with
HistClosed(c, ptr) == [w |-> c.w, status |-> c.status, fptr |-> ptr]

\* ffhist from the fill of the histogram on: r is the ffinit of the
\* histogram in memory
HistCreated(h, r, o) ==
  IF r.status # "OK" THEN [w |-> r.w, status |-> r.status, fptr |-> h]
  ELSE IF Fails(o, "hist_fill")
    THEN HistClosed(ffclos(r.w, r.fptr, "EXTERNAL_ERROR", Quiet(o)), h)
  ELSE HistClosed(ffclos(Trace(r.w, Ev("ffhist", 0, h, << >>)), h, "OK",
                         Quiet(o)), r.fptr)

\* ffhist(fptr, imagetype, haxis, colname, minin, maxin, binsizein, status):
\* "Create the histogram in memory and open it as the current fptr.  This
\* will close the table that was used to create the histogram."
ffhist(w, h, status, o) ==
  HistCreated(h, ffinit(w, STR_mem, status, HistOracle(o)), o)

\* ------------------------------------------------------------------------
\* ffopen
\* ------------------------------------------------------------------------

\* a comparison that takes two names for the same file only when the
\* extension is the same too
SameFileSameExtension(n, old) ==
  /\ n.urltype = old.urltype
  /\ n.infile = old.infile
  /\ n.rowfilter = old.rowfilter
  /\ n.binspec = old.binspec
  /\ n.colspec = old.colspec
  /\ n.extspec = old.extspec

\* "identical type of file and root file name", and either "no filtering or
\* binning specs for either file" or "filtering specs are given and are
\* identical, and the same extension is specified": n parses the name being
\* opened, old the name of a file that is open
SameFile(n, old) ==
  /\ n.urltype = old.urltype
  /\ n.infile = old.infile
  /\ \/ /\ n.rowfilter = << >> /\ old.rowfilter = << >>
        /\ n.binspec = << >> /\ old.binspec = << >>
        /\ n.colspec = << >> /\ old.colspec = << >>
     \/ /\ n.rowfilter = old.rowfilter
        /\ n.binspec = old.binspec
        /\ n.colspec = old.colspec
        /\ n.extspec = old.extspec

\* the loop "check every buffer" from buffer ii on: kind is "match" with the
\* FITSfile f, "error" with the status of the parse of a stored name, or
\* "none"
RECURSIVE ScanBuffers(_, _, _, _)
RECURSIVE ScanOld(_, _, _, _, _)
ScanBuffers(w, n, ii, o) ==
  IF ii >= NIOBUF THEN [kind |-> "none", f |-> 0, status |-> "OK"]
  ELSE IF ffcurbuf(w, ii) = 0 THEN ScanBuffers(w, n, ii + 1, o)
  ELSE ScanOld(w, n, ii, o,
               IurlLocal(ffiurl(w.Fptr[ffcurbuf(w, ii)].filename,
                                IurlOutputs, "OK", Fails(o, "nomem_old"),
                                w.build.order)))

\* the loop over the buffers from the parse of the name of the file in
\* buffer ii on: old is what ffiurl gave for it
ScanOld(w, n, ii, o, old) ==
  IF Corrupts(o, old)
    THEN [kind |-> "ub", f |-> ffcurbuf(w, ii), status |-> "OK"]
  ELSE IF old.status # "OK"
    THEN [kind |-> "error", f |-> ffcurbuf(w, ii), status |-> old.status]
  ELSE IF SameFile(n, old)
    THEN [kind |-> "match", f |-> ffcurbuf(w, ii), status |-> "OK"]
  ELSE ScanBuffers(w, n, ii + 1, o)

\* the text in front of the name in the message about a failed move
MSG_extname ==
  <<" ","e","x","t","e","n","s","i","o","n"," ","w","i","t","h"," ",
    "E","X","T","N","A","M","E"," ","="," ">>

\* ffmahd(*fptr, extnum + 1, ...) or ffmnhd(*fptr, movetotype, extname,
\* extvers, status); the HDU with the name is taken to be the first
\* extension.  After a failed move to a name the message with the name is
\* put into errmsg[FLEN_ERRMSG] by sprintf.
\* a move that takes the number of the extension for that of the HDU
MoveToExtensionOffByOne(w, h, e, o) ==
  IF e.extnum # 0
    THEN [w |-> MoveTo(w, h, e.extnum), status |-> "OK"]
  ELSE [w |-> w, status |-> "OK"]

MoveToExtension(w, h, e, o) ==
  IF e.extnum # 0
    THEN IF Fails(o, "move")
         THEN [w |-> NotMoved(w, h), status |-> "EXTERNAL_ERROR"]
         ELSE IF e.extnum + 1 > o.hdus
         THEN [w |-> NotMoved(w, h), status |-> "END_OF_FILE"]
         ELSE [w |-> MoveTo(w, h, e.extnum + 1), status |-> "OK"]
  ELSE IF e.extname # << >>
    THEN IF Fails(o, "move")
         THEN [w |-> [Trace(w, Ev("ffmnhd", 0, h, e.extname)) EXCEPT
                        !.ub = @ \/ Overflows(MSG_extname \o e.extname
                                              \o <<",">>, FLEN_ERRMSG)],
               status |-> "EXTERNAL_ERROR"]
         ELSE [w |-> [Trace(w, Ev("ffmnhd", 0, h, e.extname)) EXCEPT
                        !.fptr[h].HDUposition = 1],
               status |-> "OK"]
  ELSE [w |-> w, status |-> "OK"]

\* ffopen from what ffbins gave on: b is what it gave
OpenBinned(w, h, b, o) ==
  IF b.ub THEN [w |-> [w EXCEPT !.ub = TRUE], status |-> b.status, fptr |-> h]
  ELSE ffhist(w, h, b.status, o)

\* ffopen from "make an image histogram by binning columns" on
OpenBin(w, h, binspec, o) ==
  IF binspec = << >> THEN [w |-> w, status |-> "OK", fptr |-> h]
  ELSE OpenBinned(w, h, ffbins(binspec, "OK", o.garbage), o)

\* ffopen from the binning on: s is what the selection of the rows left, or
\* the file as it was when there is no filter
OpenSelected(s, binspec, o) ==
  IF s.status # "OK" THEN s ELSE OpenBin(s.w, s.fptr, binspec, o)

\* an open that selects the rows and bins whatever the move returned
OpenMovedRegardless(m, h, rowfilter, binspec, o) ==
  OpenSelected(IF rowfilter = << >>
               THEN [w |-> m.w, status |-> "OK", fptr |-> h]
               ELSE ffselect_table(m.w, h, rowfilter, "OK", o),
               binspec, o)

\* ffopen from the selection of the rows on: m is what the move to the
\* extension left
OpenMoved(m, h, rowfilter, binspec, o) ==
  IF m.status # "OK" THEN [w |-> m.w, status |-> m.status, fptr |-> h]
  ELSE OpenSelected(IF rowfilter = << >>
                    THEN [w |-> m.w, status |-> "OK", fptr |-> h]
                    ELSE ffselect_table(m.w, h, rowfilter, "OK", o),
                    binspec, o)

\* ffopen from the move to the extension on: e is the parse of the
\* extension specifier
OpenExtension(w, h, e, rowfilter, binspec, o) ==
  IF e.ub THEN [w |-> [w EXCEPT !.ub = TRUE], status |-> e.status, fptr |-> h]
  ELSE IF e.status # "OK" THEN [w |-> w, status |-> e.status, fptr |-> h]
  ELSE OpenMoved(MoveToExtension(w, h, e, o), h, rowfilter, binspec, o)

\* ffopen from the label move2hdu on: h is *fptr, the status is not > 0
Move2hdu(w, h, extspec, rowfilter, binspec, o) ==
  OpenExtension(w, h,
                IF extspec = << >> THEN ExtsDefault
                ELSE ExtsLocal(ffexts(extspec, "OK"), FLEN_VALUE),
                rowfilter, binspec, o)

\* the FITSfile structure ffopen fills in after calloc
OpenedFile(handle, driver, url, filesize, mode) ==
  [NoFile EXCEPT !.mem = "live", !.filehandle = handle, !.driver = driver,
                 !.filename = url, !.filesize = filesize,
                 !.logfilesize = filesize, !.writemode = mode,
                 !.datastart = "DATA_UNDEFINED", !.curbuf = -1,
                 !.open_count = 1, !.validcode = "VALIDSTRUC",
                 !.origin = "ffopen"]

\* a new fitsfile structure that points to the FITSfile f
Attach(w, f) ==
  LET h == NextHandle(w)
  IN  [w EXCEPT !.fptr[h] = [NoHandle EXCEPT !.mem = "live", !.Fptr = f,
                                             !.HDUposition = 0,
                                             !.origin = "ffopen"]]

\* ffopen, the same file is already open: attach to it
OpenShared(w, f, n, o) ==
  LET w1 == Trace(w, Ev("attach", 0, f, << >>))
  IN  IF Fails(o, "alloc_reuse")
        THEN [w |-> w1, status |-> "MEMORY_ALLOCATION", fptr |-> 0]
      ELSE Move2hdu([Attach(w1, f) EXCEPT !.Fptr[f] = AddUser(@)],
                    NextHandle(w),
                    IF n.binspec # << >> THEN << >> ELSE n.extspec,
                    << >>, << >>, o)

\* what the driver's checkfile does to the urltype, for the choice of the
\* oracle
Checked(urltype, o) ==
  CASE o.check = "compress" -> STR_compress
    [] o.check = "unknown" -> <<"q", ":", "/", "/">>
    [] OTHER -> urltype

\* ffopen after a failed read of the primary header: c is what ffclos left
OpenClosed(c) == [w |-> c.w, status |-> c.status, fptr |-> 0]

\* ffopen from the test of the status of ffrhdu on: w3 is the world when
\* ffrhdu has read the primary header of the file under Handle h, st the
\* status it left
OpenHeader(w3, h, st, n, o) ==
  IF st # "OK" THEN OpenClosed(ffclos(w3, h, st, o))
  ELSE Move2hdu(w3, h, n.extspec, n.rowfilter, n.binspec, o)

\* ffopen from the allocation of the structures on: the driver has opened
\* the file as dh
OpenStructures(w, url, n, driver, dh, mode, o) ==
  LET h  == NextHandle(w)
      f  == NextFile(w)
      st == IF Fails(o, "ffldrc") THEN "EXTERNAL_ERROR"
            ELSE IF Fails(o, "ffrhdu") THEN "UNKNOWN_REC" ELSE "OK"
      \* the world with the two structures filled in
      w1 == [Attach(w, f) EXCEPT
               !.Fptr[f] = OpenedFile(dh, driver, url, SizeRecords * 2880,
                                      mode)]
  IN  IF Fails(o, "alloc_fptr") \/ Fails(o, "alloc_Fptr")
         \/ Fails(o, "alloc_name")
        THEN [w |-> DriverClose(w, driver, dh),
              status |-> "MEMORY_ALLOCATION", fptr |-> 0]
      ELSE OpenHeader(Trace(IF Fails(o, "ffldrc") THEN w1
                            ELSE BufLoad(w1, f),
                            Ev("ffrhdu", 0, h, << >>)),
                      h, st, n, o)

\* ffopen from the call of the driver's size function on: w1 is the world
\* with the file that the driver opened as dh
\* the infile as checkfile leaves it: a compressed file is given to its
\* driver under the name it has on disk
CheckedInfile(checkfile, infile, o) ==
  IF checkfile # "NULL" /\ o.check = "compress"
  THEN infile \o <<".", "g", "z">>
  ELSE infile

OpenOpened(w1, url, n, driver, dh, mode, o) ==
  LET d  == w1.driverTable[driver]
      \* the world when the driver has been asked for the size
      w2 == Trace(w1, Ev(d.size, driver, dh, << >>))
  IN  IF d.size = "NULL"
        THEN [w |-> [w1 EXCEPT !.ub = TRUE], status |-> "OK", fptr |-> 0]
      ELSE IF Fails(o, "size")
        THEN [w |-> DriverClose(w2, driver, dh), status |-> "DRIVER_ERROR",
              fptr |-> 0]
      ELSE OpenStructures(w2, url, n, driver, dh, mode, o)

\* ffopen from the call of the driver's open function on
OpenDriver(w, url, n, driver, infile, mode, o) ==
  LET d == w.driverTable[driver]
  IN  IF d.open = "NULL"
        THEN [w |-> w, status |-> "FILE_NOT_OPENED", fptr |-> 0]
      ELSE IF Fails(o, "dopen")
        THEN [w |-> Trace(w, Ev(d.open, driver, 0, infile)),
              status |-> "DRIVER_ERROR", fptr |-> 0]
      ELSE OpenOpened(DriverMint(w, d.open, driver, infile), url, n, driver,
                      NextDH(w), mode, o)

\* ffopen from the second lookup of the driver on: drv2 is the driver for
\* the type that checkfile left, w1 the world after checkfile
OpenChecked(w1, url, n, drv2, mode, o) ==
  IF drv2.status # "OK"
    THEN [w |-> w1, status |-> drv2.status, fptr |-> 0]
  ELSE OpenDriver(w1, url, n, drv2.driver, n.infile, mode, o)

\* ffopen from the call of checkfile on: drv is the driver for the type of
\* the name
\* a check after which the driver is not looked up again
OpenFoundSameDriver(w, url, n, drv, mode, o) ==
  LET checkfile == w.driverTable[drv.driver].checkfile
      w1 == Trace(w, Ev(checkfile, drv.driver, 0, n.infile))
  IN  IF drv.status # "OK"
        THEN [w |-> w, status |-> drv.status, fptr |-> 0]
      ELSE IF checkfile # "NULL" /\ o.check = "fail"
        THEN [w |-> w1, status |-> "DRIVER_ERROR", fptr |-> 0]
      ELSE OpenChecked(IF checkfile = "NULL" THEN w ELSE w1, url,
                       [n EXCEPT !.infile = CheckedInfile(checkfile, @, o)],
                       drv, mode, o)

OpenFound(w, url, n, drv, mode, o) ==
  LET checkfile == w.driverTable[drv.driver].checkfile
      w1 == Trace(w, Ev(checkfile, drv.driver, 0, n.infile))
  IN  IF drv.status # "OK"
        THEN [w |-> w, status |-> drv.status, fptr |-> 0]
      ELSE IF checkfile # "NULL" /\ o.check = "fail"
        THEN [w |-> w1, status |-> "DRIVER_ERROR", fptr |-> 0]
      \* the driver is looked up again when checkfile changed the type
      ELSE OpenChecked(IF checkfile = "NULL" THEN w ELSE w1, url,
                       [n EXCEPT !.infile = CheckedInfile(checkfile, @, o)],
                       IF checkfile = "NULL"
                          \/ Checked(n.urltype, o) = n.urltype
                       THEN drv
                       ELSE urltype2driver(w, Checked(n.urltype, o)),
                       mode, o)

\* ffopen from urltype2driver on: no open file is the same file
OpenFresh(w, url, n, mode, o) ==
  OpenFound(w, url, n, urltype2driver(w, n.urltype), mode, o)

\* ffopen from the end of the loop over the buffers on: sc is what the loop
\* found
OpenScanned(w, url, n, sc, mode, o) ==
  IF sc.kind = "ub"
    THEN [w |-> [w EXCEPT !.ub = TRUE], status |-> "OK", fptr |-> 0]
  ELSE IF sc.kind = "error"
    THEN [w |-> w, status |-> sc.status, fptr |-> 0]
  ELSE IF sc.kind = "match" THEN OpenShared(w, sc.f, n, o)
  ELSE OpenFresh(w, url, n, mode, o)

\* ffopen from the parse of the name on: n is what ffiurl gave
OpenNamed(w, url, n, mode, o) ==
  IF Corrupts(o, n)
    THEN [w |-> [w EXCEPT !.ub = TRUE], status |-> n.status, fptr |-> 0]
  ELSE IF n.status # "OK"
    THEN [w |-> w, status |-> n.status, fptr |-> 0]
  ELSE OpenScanned(w, url, n, ScanBuffers(w, n, 0, o), mode, o)

\* ffopen from the initialization of the library on: lib is the library
\* after it, url the name without leading blanks
OpenStarted(lib, url, mode, o) ==
  IF lib.status # "OK"
    THEN [w |-> lib.w, status |-> lib.status, fptr |-> 0]
  ELSE IF url = << >>
    THEN [w |-> lib.w, status |-> "FILE_NOT_OPENED", fptr |-> 0]
  ELSE OpenNamed(lib.w, url,
                 IurlLocal(ffiurl(url, IurlOutputs, "OK",
                                  Fails(o, "nomem_url"), lib.w.build.order)),
                 mode, o)

\* an ffopen that does not look at the status it is entered with
ffopenUnchecked(w0, name, mode, status, o) ==
  OpenStarted(InitLibrary(w0, o), SkipBlanks(name), mode, o)

\* ffopen(fptr, name, mode, status)
ffopen(w0, name, mode, status, o) ==
  IF status # "OK" THEN [w |-> w0, status |-> status, fptr |-> 0]
  ELSE OpenStarted(InitLibrary(w0, o), SkipBlanks(name), mode, o)

\* ------------------------------------------------------------------------
\* ffomem, ffextn, fftplt
\* ------------------------------------------------------------------------

\* ffomem from the call of the driver's size function on: w2 is the world
\* when the driver that opened the memory as dh has been asked for the size
OmemSized(w2, url, n, drv, dh, mode, o) ==
  IF Fails(o, "size")
    THEN [w |-> DriverClose(w2, drv.driver, dh), status |-> "DRIVER_ERROR",
          fptr |-> 0]
  ELSE OpenStructures(w2, url,
                      [n EXCEPT !.rowfilter = << >>, !.binspec = << >>],
                      drv.driver, dh, mode, o)

\* ffomem from the parse of the name on: n is what ffiurl gave, drv the
\* driver "memkeep://"
OmemNamed(w, url, n, drv, mode, o) ==
  IF Corrupts(o, n)
    THEN [w |-> [w EXCEPT !.ub = TRUE], status |-> n.status, fptr |-> 0]
  ELSE IF drv.status # "OK"
    THEN [w |-> w, status |-> drv.status, fptr |-> 0]
  ELSE IF Fails(o, "dopen")
    THEN [w |-> Trace(w, Ev("mem_openmem", drv.driver, 0, << >>)),
          status |-> "DRIVER_ERROR", fptr |-> 0]
  ELSE IF w.driverTable[drv.driver].size = "NULL"
    THEN [w |-> [DriverMint(w, "mem_openmem", drv.driver, << >>) EXCEPT
                   !.ub = TRUE],
          status |-> "OK", fptr |-> 0]
  ELSE OmemSized(Trace(DriverMint(w, "mem_openmem", drv.driver, << >>),
                       Ev(w.driverTable[drv.driver].size, drv.driver,
                          NextDH(w), << >>)),
                 url, n, drv, NextDH(w), mode, o)

\* ffomem from the initialization of the library on: lib is the library
\* after it, url the name without leading blanks
OmemStarted(lib, url, mode, o) ==
  IF lib.status # "OK"
    THEN [w |-> lib.w, status |-> lib.status, fptr |-> 0]
  ELSE OmemNamed(lib.w, url,
                 IurlLocal(ffiurl(url, IurlOutputs, "OK",
                                  Fails(o, "nomem_url"), lib.w.build.order)),
                 urltype2driver(lib.w, STR_memkeep), mode, o)

\* ffomem(fptr, name, mode, buffptr, buffsize, deltasize, mem_realloc,
\* status): the status of the parse is overwritten by that of the lookup
ffomem(w0, name, mode, status, o) ==
  IF status # "OK" THEN [w |-> w0, status |-> status, fptr |-> 0]
  ELSE OmemStarted(InitLibrary(w0, o), SkipBlanks(name), mode, o)

\* the value of *extension_num that ffextn leaves alone
NoExtension == 0 - 1

\* ffextn when the file is closed again: r is the ffopen at the named
\* extension, c what ffclos left
ExtnClosed(r, c) ==
  [w |-> c.w, status |-> c.status,
   extension_num |-> r.w.fptr[r.fptr].HDUposition + 1]

\* ffextn from the close of the file on: r is the ffopen at the named
\* extension
\* an ffextn that leaves the file open
ExtnOpenedLeftOpen(r, o) ==
  IF r.w.ub \/ r.status # "OK"
    THEN [w |-> r.w, status |-> r.status, extension_num |-> NoExtension]
  ELSE [w |-> r.w, status |-> "OK",
        extension_num |-> r.w.fptr[r.fptr].HDUposition + 1]

ExtnOpened(r, o) ==
  IF r.w.ub \/ r.status # "OK"
    THEN [w |-> r.w, status |-> r.status, extension_num |-> NoExtension]
  ELSE ExtnClosed(r, ffclos(r.w, r.fptr, "OK", o))

\* ffextn from the parse of the extension specifier on: n is what ffiurl
\* gave for the url, e what ffexts gave
ExtnExtension(w, url, n, e, o) ==
  LET cptr == strchr(url, "]")
  IN  IF e.ub
        THEN [w |-> [w EXCEPT !.ub = TRUE], status |-> e.status,
              extension_num |-> NoExtension]
      ELSE IF e.status # "OK"
        THEN [w |-> w, status |-> e.status, extension_num |-> NoExtension]
      ELSE IF e.extname = << >>
        THEN [w |-> w, status |-> "OK", extension_num |-> e.extnum + 1]
      ELSE IF n.urltype = STR_stdin
        THEN [w |-> w, status |-> "URL_PARSE_ERROR",
              extension_num |-> NoExtension]
      \* strcpy(infile, url) into the local infile[FLEN_FILENAME]
      ELSE IF Overflows(url, FLEN_FILENAME) /\ o.harm
        THEN [w |-> [w EXCEPT !.ub = TRUE], status |-> "OK",
              extension_num |-> NoExtension]
      ELSE IF cptr = 0
        THEN [w |-> w, status |-> "URL_PARSE_ERROR",
              extension_num |-> NoExtension]
      ELSE ExtnOpened(ffopen(w, SubSeq(url, 1, cptr), 0, "OK", o), o)

\* ffextn from the parse of the url on: n is what ffiurl gave
ExtnNamed(w, url, n, o) ==
  IF Corrupts(o, n)
    THEN [w |-> [w EXCEPT !.ub = TRUE], status |-> n.status,
          extension_num |-> NoExtension]
  ELSE IF n.status # "OK"
    THEN [w |-> w, status |-> n.status, extension_num |-> NoExtension]
  ELSE IF n.binspec # << >>
    THEN [w |-> w, status |-> "OK", extension_num |-> 1]
  ELSE IF n.extspec = << >>
    THEN [w |-> w, status |-> "OK", extension_num |-> 0 - 99]
  ELSE ExtnExtension(w, url, n,
                     ExtsLocal(ffexts(n.extspec, "OK"), FLEN_FILENAME), o)

\* ffextn(url, extension_num, status): extension_num is NoExtension when
\* the call does not assign it
ffextn(w, url, status, o) ==
  IF status # "OK"
    THEN [w |-> w, status |-> status, extension_num |-> NoExtension]
  ELSE ExtnNamed(w, url,
                 IurlLocal(ffiurl(url, IurlOutputs, "OK",
                                  Fails(o, "nomem_url"), w.build.order)), o)

\* the oracle for the ffopen of the template
TemplateOracle(o) ==
  [o EXCEPT !.fail = CASE o.fail = "tpl_dopen" -> "dopen"
                       [] o.fail = "tpl_ffrhdu" -> "ffrhdu"
                       [] o.fail = "tpl_move" -> "move"
                       [] OTHER -> "none"]

\* the loop of fftplt over the lines of an ASCII template, lines being the
\* kinds of the lines still to read: an END line starts a new HDU, which
\* ffcrhd creates before the next card is written to *fptr with ffprec.
\* A line that begins with a NUL byte ("NUL") has slen = 0, and
\* template[slen - 1] = '\0' stores a byte at template[-1], outside the
\* array: the call stops there when the store does harm, and goes on with
\* the empty line as a card when it does not.
RECURSIVE TemplateLines(_, _, _, _, _)
TemplateLines(w, h, lines, newhdu, harm) ==
  IF lines = << >> THEN w
  ELSE IF Head(lines) = "NUL" /\ harm THEN [w EXCEPT !.ub = TRUE]
  ELSE IF Head(lines) = "END"
    THEN TemplateLines(w, h, Tail(lines), TRUE, harm)
  ELSE TemplateLines(Trace(IF newhdu THEN Trace(w, Ev("ffcrhd", 0, h, << >>))
                           ELSE w,
                           Ev("ffprec", 0, h, << >>)),
                     h, Tail(lines), FALSE, harm)

\* fftplt, the template is not a FITS file: read it as an ASCII template.
\* o.lines are the lines of the file; a parse that fails (tpl_parse) is
\* that of the first line, after the store that ends the line, and ends the
\* loop; the move back to the primary array is called whatever the status.
TemplateAscii(w, h, tempname, o) ==
  LET w1 == Trace(w, Ev("fopen", 0, 0, tempname))
      w2 == TemplateLines(w1, h, o.lines, FALSE, o.harm)
  IN  IF Fails(o, "tpl_fopen")
        THEN [w |-> w1, status |-> "FILE_NOT_OPENED", fptr |-> h]
      ELSE IF o.lines # << >> /\ Head(o.lines) = "NUL" /\ o.harm
        THEN [w |-> [w1 EXCEPT !.ub = TRUE], status |-> "OK", fptr |-> h]
      ELSE IF Fails(o, "tpl_parse") /\ o.lines # << >>
        THEN [w |-> NotMoved(w1, h), status |-> "EXTERNAL_ERROR", fptr |-> h]
      ELSE IF w2.ub THEN [w |-> w2, status |-> "OK", fptr |-> h]
      ELSE IF Fails(o, "tpl_moveback")
        THEN [w |-> NotMoved(w2, h), status |-> "EXTERNAL_ERROR", fptr |-> h]
      ELSE [w |-> MoveTo(w2, h, 1), status |-> "OK", fptr |-> h]

\* fftplt from the close of the template on: c is what ffclos left.
\* END_OF_FILE is the expected end of the loop, and the move of *fptr to
\* the primary array is called whatever the status.
TemplateClosed(c, h, o) ==
  LET s2 == IF c.status = "END_OF_FILE" THEN "OK" ELSE c.status
  IN  IF s2 # "OK" THEN [w |-> NotMoved(c.w, h), status |-> s2, fptr |-> h]
      ELSE IF Fails(o, "tpl_moveback")
        THEN [w |-> NotMoved(c.w, h), status |-> "EXTERNAL_ERROR",
              fptr |-> h]
      ELSE [w |-> MoveTo(c.w, h, 1), status |-> "OK", fptr |-> h]

\* for (ii = 1; ii <= nkeys; ii++): card ii is read with ffgrec from *fptr
\* and written with ffprec to tptr
RECURSIVE TemplateCards(_, _, _, _)
TemplateCards(w, h, tptr, nkeys) ==
  IF nkeys = 0 THEN w
  ELSE Trace(Trace(TemplateCards(w, h, tptr, nkeys - 1),
                   Ev("ffgrec", 0, h, << >>)),
             Ev("ffprec", 0, tptr, << >>))

\* the loop of fftplt over the HDUs of the template, one pass for each HDU
\* from the one tptr is at: the nkeys cards are copied, then tptr moves to
\* its next HDU and an HDU is added to *fptr, also after the move that
\* failed.  o.hdus is the number of HDUs of the template: the move from the
\* last of them gives END_OF_FILE, and a move that fails otherwise
\* (tpl_copy) is the first one.
RECURSIVE TemplateCopy(_, _, _, _, _)
TemplateCopy(w, h, tptr, nkeys, o) ==
  LET w1 == Trace(TemplateCards(w, h, tptr, nkeys),
                  Ev("ffmrhd", 0, tptr, << >>))
      hdunum == w.fptr[tptr].HDUposition + 1
  IN  IF Fails(o, "tpl_copy")
        THEN [w |-> Trace(w1, Ev("ffcrhd", 0, h, << >>)),
              status |-> "EXTERNAL_ERROR"]
      ELSE IF hdunum >= o.hdus
        THEN [w |-> Trace(w1, Ev("ffcrhd", 0, h, << >>)),
              status |-> "END_OF_FILE"]
      ELSE TemplateCopy(Trace([w1 EXCEPT !.fptr[tptr].HDUposition = hdunum],
                              Ev("ffcrhd", 0, h, << >>)),
                        h, tptr, nkeys, o)

\* fftplt, the template is a FITS file open as tptr: nkeys is what ffghsp
\* gives for *fptr, o.nkeys, and the keywords are read from *fptr and
\* written to tptr until a step fails; then the template is closed
TemplateFits(w, h, tptr, o) ==
  LET l == TemplateCopy(Trace(w, Ev("ffghsp", 0, h, << >>)), h, tptr,
                        o.nkeys, o)
  IN  TemplateClosed(ffclos(l.w, tptr, l.status, o), h, o)

\* fftplt from the open of the template on: r is the ffinit of the new
\* file, t the ffopen of the template
TemplateOpened(r, t, tempname, o) ==
  IF t.w.ub THEN [w |-> t.w, status |-> "OK", fptr |-> r.fptr]
  ELSE IF t.status # "OK" THEN TemplateAscii(t.w, r.fptr, tempname, o)
  ELSE TemplateFits(t.w, r.fptr, t.fptr, o)

\* fftplt from the creation of the file on: r is the ffinit of the new file
TemplateCreated(r, tempname, o) ==
  IF r.w.ub \/ r.status # "OK" THEN r
  ELSE IF tempname = NullStr \/ tempname = << >> THEN r
  ELSE TemplateOpened(r, ffopen(r.w, tempname, 0, "OK", TemplateOracle(o)),
                      tempname, o)

\* fftplt(fptr, filename, tempname, status): tempname is NullStr for NULL
fftplt(w, filename, tempname, status, o) ==
  IF status # "OK" THEN [w |-> w, status |-> status, fptr |-> 0]
  ELSE TemplateCreated(ffinit(w, filename, "OK", o), tempname, o)

\* ------------------------------------------------------------------------
\* fftrun, ffflushx, ffseek, ffwrite, ffread: the calls of a driver for an
\* open file.  ret is what the function of the driver returns.  fftrun
\* calls ffflsh(fptr, FALSE, status) to write the buffers before the
\* truncation; the positions io_pos and bytepos are not part of the model.
\* ------------------------------------------------------------------------

\* the function fn of the driver of the FITSfile f is called and returns
DriverCall(w, f, fn) ==
  Trace(w, Ev(w.driverTable[w.Fptr[f].driver][fn], w.Fptr[f].driver,
              w.Fptr[f].filehandle, << >>))

\* the driver of the FITSfile f has no function fn
Absent(w, f, fn) == w.driverTable[w.Fptr[f].driver][fn] = "NULL"

fftrun(w, h, filesize, status, ret) ==
  LET f == w.fptr[h].Fptr
  IN  IF ~Absent(w, f, "truncate")
        THEN [w |-> [DriverCall(Trace(w, Ev("ffflsh", 0, h, << >>)), f,
                                "truncate") EXCEPT
                       !.Fptr[f].filesize = filesize,
                       !.Fptr[f].logfilesize = filesize],
              status |-> ret]
      ELSE [w |-> w, status |-> status]

ffflushx(w, f, ret) ==
  IF ~Absent(w, f, "flush")
    THEN [w |-> DriverCall(w, f, "flush"), status |-> ret]
  ELSE [w |-> w, status |-> "OK"]

\* the function fn is called without a test: a call through a null
\* pointer when the driver has none
Unchecked(w, f, fn) ==
  IF Absent(w, f, fn) THEN [w EXCEPT !.ub = TRUE] ELSE DriverCall(w, f, fn)

ffseek(w, f, ret) == [w |-> Unchecked(w, f, "seek"), status |-> ret]

ffwrite(w, f, status, ret) ==
  [w |-> Unchecked(w, f, "write"),
   status |-> IF ret # "OK" THEN "WRITE_ERROR" ELSE status]

ffread(w, f, status, ret) ==
  [w |-> Unchecked(w, f, "read"),
   status |-> IF ret # "OK" THEN "READ_ERROR" ELSE status]

\* ------------------------------------------------------------------------
\* The program as a state machine
\* ------------------------------------------------------------------------

\* the state of the library, with the calls made while an operation runs
World ==
  [need_to_initialize |-> need_to_initialize, no_of_drivers |-> no_of_drivers,
   driverTable |-> driverTable, Fptr |-> Fptr, fptr |-> fptr,
   bufptr |-> bufptr, drvh |-> drvh, build |-> build, ub |-> ub,
   trace |-> << >>]

Commit(w) ==
  /\ need_to_initialize' = w.need_to_initialize
  /\ no_of_drivers' = w.no_of_drivers
  /\ driverTable' = w.driverTable
  /\ Fptr' = w.Fptr
  /\ fptr' = w.fptr
  /\ bufptr' = w.bufptr
  /\ drvh' = w.drvh
  /\ ub' = w.ub
  /\ build' = build

\* the variables of the library itself
libvars ==
  <<need_to_initialize, no_of_drivers, driverTable, Fptr, fptr, bufptr, drvh,
    build, ub>>

NoOut == [written |-> FALSE]

\* the record of a call: what was passed in, and, once it has returned, the
\* status, the Handle left in *fptr (0: null), the calls it made and the
\* outputs of a parse
Call(op, name, tempname, h, mode, status) ==
  [op |-> op, name |-> name, tempname |-> tempname, h |-> h, mode |-> mode,
   status_in |-> status, status |-> status, fptr |-> 0, trace |-> << >>,
   out |-> NoOut]

NoCall == Call("none", NullStr, NullStr, 0, 0, "OK")

Returned(c, r) ==
  [c EXCEPT !.status = r.status, !.fptr = r.fptr, !.trace = r.w.trace]

\* the builds of the library: with network and shared memory drivers or
\* without, with ftruncate or without, the order in which the compiler
\* evaluates the lower-casing statement of ffiurl
Build(net, shmem, ftruncate, order) ==
  [net |-> net, shmem |-> shmem, ftruncate |-> ftruncate, order |-> order]

InitWith(builds) ==
  /\ need_to_initialize = TRUE
  /\ no_of_drivers = 0
  /\ driverTable = [i \in 0..(MAX_DRIVERS - 1) |-> EmptyDriver]
  /\ Fptr = [i \in 1..MaxFiles |-> NoFile]
  /\ fptr = [i \in 1..MaxHandles |-> NoHandle]
  /\ bufptr = [i \in 0..(NIOBUF - 1) |-> 0]
  /\ drvh = [i \in 1..MaxDH |-> [state |-> "unused", closes |-> 0,
                                 driver |-> 0]]
  /\ build \in builds
  /\ ub = FALSE
  /\ held = {}
  /\ last = NoCall

\* there is memory for k more structures of each kind
Room(k) ==
  /\ FreeHandles(World) >= k
  /\ FreeFiles(World) >= k
  /\ FreeDH(World) >= k

\* fewer than cap fitsfile structures are in use after k more are allocated
Within(cap, k) == MaxHandles - FreeHandles(World) + k <= cap

\* the structures an ffopen of the name can take
Need(name) ==
  Cardinality({spec \in {"name", "rowfilter", "binspec"} :
                 \/ spec = "name"
                 \/ ffiurl(SkipBlanks(name), IurlOutputs, "OK", FALSE,
                           build.order)[spec] # << >>})

\* the Handles the caller has: a Handle left in *fptr by a call is kept
\* whatever the status
Keep(h) == IF h # 0 THEN held \cup {h} ELSE held

\* the call c has returned r: the library is as r left it and the Handle
\* in *fptr is kept
Return(c, r) ==
  /\ Commit(r.w)
  /\ held' = Keep(r.fptr)
  /\ last' = Returned(c, r)

\* the call c, which takes the Handle h from the caller, has returned r
Drop(c, r, h) ==
  /\ Commit(r.w)
  /\ held' = held \ {h}
  /\ last' = [c EXCEPT !.status = r.status, !.trace = r.w.trace]

\* the call c of ffextn has returned r
Answer(c, r) ==
  /\ Commit(r.w)
  /\ held' = held
  /\ last' = [c EXCEPT !.status = r.status, !.trace = r.w.trace,
                       !.out = [written |-> r.extension_num # NoExtension,
                                extension_num |-> r.extension_num]]

\* the Handle that r returns with a status of 0 was opened as name
Named(r, name) ==
  IF r.status = "OK" /\ r.fptr # 0
  THEN [r EXCEPT !.w.fptr[r.fptr].opened_as = name]
  ELSE r

\* a driver of the caller, with the functions of implementation impl
UserDriver(prefix, impl) ==
  IF impl = "A"
  THEN Drv(prefix, "A_init", "NULL", "NULL", "NULL", "NULL", "NULL",
           "A_open", "A_create", "NULL", "A_close", "A_remove", "A_size",
           "NULL", "A_seek", "A_read", "A_write")
  ELSE Drv(prefix, "B_init", "NULL", "NULL", "NULL", "NULL", "NULL",
           "B_open", "B_create", "NULL", "B_close", "B_remove", "B_size",
           "NULL", "B_seek", "B_read", "B_write")

\* the drivers the callers of the model register at most
MaxUserDrivers == 2

UserDrivers ==
  Cardinality({i \in 0..(no_of_drivers - 1) :
                 driverTable[i].init \in {"A_init", "B_init"}})

\* fits_register_driver called by the user of the library
Register(prefix, impl, initret) ==
  /\ ~ub
  /\ UserDrivers < MaxUserDrivers
  /\ Drop(Call("fits_register_driver", prefix, NullStr, 0, 0, "OK"),
          fits_register_driver(World, UserDriver(prefix, impl), initret), 0)

\* fits_register_driver called as often as the caller likes
RegisterAny(prefix, impl, initret) ==
  /\ ~ub
  /\ Drop(Call("fits_register_driver", prefix, NullStr, 0, 0, "OK"),
          fits_register_driver(World, UserDriver(prefix, impl), initret), 0)

\* a driver of the caller that has every function but those of lacking
PartialDriver(prefix, lacking) ==
  [fn \in DOMAIN UserDriver(prefix, "A") |->
     IF fn \in lacking THEN "NULL" ELSE UserDriver(prefix, "A")[fn]]

\* fits_register_driver called with null pointers for some functions
RegisterPartial(prefix, lacking, initret) ==
  /\ ~ub
  /\ Drop(Call("fits_register_driver", prefix, NullStr, 0, 0, "OK"),
          fits_register_driver(World, PartialDriver(prefix, lacking),
                               initret), 0)

Open(name, mode, status, o) ==
  /\ ~ub
  /\ Room(Need(name))
  /\ Return(Call("ffopen", name, NullStr, 0, mode, status),
            Named(ffopen(World, name, mode, status, o), name))

OpenMemory(name, mode, status, o) ==
  /\ ~ub
  /\ Room(1)
  /\ Return(Call("ffomem", name, NullStr, 0, mode, status),
            ffomem(World, name, mode, status, o))

Create(name, status, o) ==
  /\ ~ub
  /\ Room(1)
  /\ Return(Call("ffinit", name, NullStr, 0, 0, status),
            ffinit(World, name, status, o))

CreateFromTemplate(name, tempname, status, o) ==
  /\ ~ub
  /\ Room(1 + (IF tempname = NullStr THEN 0 ELSE Need(tempname)))
  /\ Return(Call("fftplt", name, tempname, 0, 0, status),
            fftplt(World, name, tempname, status, o))

Reopen(h, status, o) ==
  /\ ~ub
  /\ h \in held \cup {0}
  /\ Room(1)
  /\ Return(Call("ffreopen", NullStr, NullStr, h, 0, status),
            ffreopen(World, h, status, o))

Close(h, status, o) ==
  /\ ~ub
  /\ h \in held \cup {0}
  /\ Drop(Call("ffclos", NullStr, NullStr, h, 0, status),
          ffclos(World, h, status, o), h)

Delete(h, status, o) ==
  /\ ~ub
  /\ h \in held \cup {0}
  /\ Drop(Call("ffdelt", NullStr, NullStr, h, 0, status),
          ffdelt(World, h, status, o), h)

ExtensionOf(url, status, o) ==
  /\ ~ub
  /\ Room(Need(url))
  /\ Answer(Call("ffextn", url, NullStr, 0, 0, status),
            ffextn(World, url, status, o))

\* the call c for the open file of the Handle h has returned r
Done(c, r) ==
  /\ Commit(r.w)
  /\ held' = held
  /\ last' = [c EXCEPT !.status = r.status, !.trace = r.w.trace]

\* the Handle h of the caller is that of an open file
InUse(h) ==
  /\ h \in held
  /\ fptr[h].mem = "live" /\ ~fptr[h].closed
  /\ Fptr[fptr[h].Fptr].mem = "live"

Truncate(h, filesize, status, ret) ==
  /\ ~ub
  /\ InUse(h)
  /\ Done(Call("fftrun", NullStr, NullStr, h, 0, status),
          fftrun(World, h, filesize, status, ret))

Flush(h, ret) ==
  /\ ~ub
  /\ InUse(h)
  /\ Done(Call("ffflushx", NullStr, NullStr, h, 0, "OK"),
          ffflushx(World, fptr[h].Fptr, ret))

Seek(h, ret) ==
  /\ ~ub
  /\ InUse(h)
  /\ Done(Call("ffseek", NullStr, NullStr, h, 0, "OK"),
          ffseek(World, fptr[h].Fptr, ret))

Write(h, status, ret) ==
  /\ ~ub
  /\ InUse(h)
  /\ Done(Call("ffwrite", NullStr, NullStr, h, 0, status),
          ffwrite(World, fptr[h].Fptr, status, ret))

Read(h, status, ret) ==
  /\ ~ub
  /\ InUse(h)
  /\ Done(Call("ffread", NullStr, NullStr, h, 0, status),
          ffread(World, fptr[h].Fptr, status, ret))

\* a call of one of the parsing functions, which leave the library alone
Parsed(op, text, status, r) ==
  /\ ~ub
  /\ UNCHANGED libvars
  /\ held' = held
  /\ last' = [Call(op, text, NullStr, 0, 0, status) EXCEPT
                !.status = r.status, !.out = r]

ParseInput(url, status) ==
  Parsed("ffiurl", url, status,
         ffiurl(url, IurlOutputs, status, FALSE, build.order))

ParseOutput(url, status) == Parsed("ffourl", url, status, ffourl(url, status))

ParseRoot(url, status) == Parsed("ffrtnm", url, status, ffrtnm(url, status))

ParseExtspec(extspec, status) ==
  Parsed("ffexts", extspec, status, ffexts(extspec, status))

ParseBinspec(binspec, status, garbage) ==
  Parsed("ffbins", binspec, status, ffbins(binspec, status, garbage))

\* ------------------------------------------------------------------------
\* The callers of the model: names, statuses and what the environment does
\* ------------------------------------------------------------------------

U_f     == <<"f">>
U_g     == <<"g">>
U_f1    == <<"f", "[", "1", "]">>
U_f2    == <<"f", "[", "2", "]">>
U_fe    == <<"f", "[", "e", "]">>
U_fsel  == <<"f", "[", "1", "]", "[", "a", "]">>
U_fbin  == <<"f", "[", "1", "]", "[", "b", "i", "n", " ", "x", "]">>
U_fcol  == <<"f", "[", "1", "]", "[", "c", "o", "l", " ", "x", "]">>
U_bad   == <<"f", "(">>
U_blank == <<" ">>
U_mem   == <<"m", "e", "m", ":", "/", "/">>
U_x     == <<"x", ":", "/", "/", "f">>
U_q     == <<"q", ":", "/", "/", "f">>
U_c     == <<"c">>
U_clob  == <<"!", "c">>
STR_x   == <<"x", ":", "/", "/">>

\* the number of HDUs of the files that are opened
FileHDUs == 3

\* the number of keywords that ffghsp finds in the header of a new file
HeaderKeys == 2

\* the lines of an ASCII template: a card, an END line and a card
TemplateText == <<"card", "END", "card">>

\* the environment does nothing unexpected
Calm ==
  [fail |-> "none", dclose |-> TRUE, check |-> "keep", stale |-> "zero",
   swapok |-> TRUE, initfail |-> 0, garbage |-> NoGarbage, harm |-> FALSE,
   hdus |-> FileHDUs, nkeys |-> HeaderKeys, lines |-> TemplateText]

\* one step of the environment fails
Failing(steps) == {[Calm EXCEPT !.fail = st] : st \in steps}

OpenSteps ==
  {"nomem_url", "nomem_old", "alloc_reuse", "dopen", "size", "alloc_fptr",
   "alloc_Fptr", "alloc_name", "ffldrc", "ffrhdu", "move"}

SelectSteps ==
  {"sel_create", "sel_alloc_fptr", "sel_alloc_Fptr", "sel_alloc_name",
   "sel_ffldrc", "sel_copy_hdu", "sel_copy_header", "sel_ffrdef",
   "sel_select_rows", "sel_tail", "sel_moveback"}

HistSteps == {"hist_create", "hist_ffldrc", "hist_fill"}

CreateSteps == {"create", "alloc_fptr", "alloc_Fptr", "alloc_name", "ffldrc"}

TemplateSteps ==
  {"tpl_dopen", "tpl_ffrhdu", "tpl_move", "tpl_fopen", "tpl_parse",
   "tpl_copy", "tpl_moveback"}

\* the driver's close fails, alone or after the primary header was not
\* understood
CloseFails ==
  {[Calm EXCEPT !.dclose = FALSE],
   [Calm EXCEPT !.dclose = FALSE, !.fail = "ffrhdu"]}

\* the library cannot be initialised
InitFails == {[Calm EXCEPT !.swapok = FALSE], [Calm EXCEPT !.initfail = 2]}

\* what checkfile can do
Checks ==
  {[Calm EXCEPT !.check = "fail"], [Calm EXCEPT !.check = "compress"],
   [Calm EXCEPT !.check = "unknown"]}

\* the status a caller passes in: none, or the error of an earlier call
Statuses == {"OK", "PRIOR_ERROR"}

\* the builds of the model: no network and no shared memory drivers
Builds == {Build(FALSE, FALSE, TRUE, "read_then_increment")}

\* a write outside a buffer does harm
Harm == [Calm EXCEPT !.harm = TRUE]

Init == InitWith(Builds)

\* --- the life of files: open, create, reopen, close, delete ---

\* the fitsfile structures allocated in a life
LifeCap == 3

LifeOpen ==
  \/ \E name \in {U_f, U_f1, U_fsel, U_c} :
       Within(LifeCap, Need(name)) /\ Open(name, 0, "OK", Calm)
  \/ \E name \in {U_f, U_f1}, o \in Failing({"ffrhdu", "move"}) \cup {Harm} :
       Within(LifeCap, 1) /\ Open(name, 0, "OK", o)

LifeCreate ==
  \/ Within(LifeCap, 1) /\ Create(U_c, "OK", Calm)
  \/ Within(LifeCap, 1) /\ Create(U_c, "OK", [Calm EXCEPT !.fail = "ffldrc"])

LifeReopen ==
  \E h \in 0..MaxHandles : Within(LifeCap, 1) /\ Reopen(h, "OK", Calm)

LifeClose ==
  \E h \in 0..MaxHandles,
     o \in {Calm, [Calm EXCEPT !.dclose = FALSE],
            [Calm EXCEPT !.stale = "crash"]} :
       Close(h, "OK", o)

LifeDelete == \E h \in 0..MaxHandles : Delete(h, "OK", Calm)

Next ==
  \/ LifeOpen
  \/ LifeCreate
  \/ LifeReopen
  \/ LifeClose
  \/ LifeDelete

Spec == Init /\ [][Next]_vars

\* --- the reuse of open files: open the same or another name again ---

ReuseNames == {U_f, U_f1, U_g, U_fsel, U_fcol}

ReuseOpen == \E name \in ReuseNames : Open(name, 0, "OK", Calm)

ReuseOpenFails ==
  \E o \in Failing({"move", "sel_select_rows"}) : Open(U_fsel, 0, "OK", o)

ReuseClose == \E h \in 1..MaxHandles : Close(h, "OK", Calm)

NextReuse ==
  \/ ReuseOpen
  \/ ReuseOpenFails
  \/ ReuseClose

SpecReuse == Init /\ [][NextReuse]_vars

\* a name of k characters
LongName(k) == [i \in 1..k |-> "n"]

\* the file f at the extension with a name of k characters
NamedExtension(k) == <<"f", "[">> \o LongName(k) \o <<"]">>

\* --- the status on entry: every operation with and without an earlier
\* --- error

\* the fitsfile structures allocated by the calls with a status
EntryCap == 2

EntryOpen ==
  \E name \in {U_f, U_f1}, status \in Statuses :
    Within(EntryCap, 1) /\ Open(name, 0, status, Calm)

EntryOpenMemory ==
  \E status \in Statuses :
    Within(EntryCap, 1) /\ OpenMemory(U_mem, 0, status, Calm)

EntryCreate ==
  \E status \in Statuses : Within(EntryCap, 1) /\ Create(U_c, status, Calm)

EntryCreateFromTemplate ==
  \E tempname \in {NullStr, U_f}, status \in Statuses :
    /\ Within(EntryCap, IF tempname = NullStr THEN 1 ELSE 2)
    /\ CreateFromTemplate(U_c, tempname, status, Calm)

EntryReopen ==
  \E h \in 0..MaxHandles, status \in Statuses :
    Within(EntryCap, 1) /\ Reopen(h, status, Calm)

EntryExtensionOf ==
  \E url \in {U_f1, U_fe}, status \in Statuses :
    Within(EntryCap, 1) /\ ExtensionOf(url, status, Calm)

EntryParse ==
  \E status \in Statuses :
    \/ \E url \in {U_f1, U_fsel} : ParseInput(url, status)
    \/ ParseOutput(U_clob, status)
    \/ ParseRoot(U_f1, status)
    \/ \E extspec \in {<<"1">>, <<"e", ",", "2">>} :
         ParseExtspec(extspec, status)
    \/ \E garbage \in {NoGarbage, [NoGarbage EXCEPT ![1] = TRUE]} :
         ParseBinspec(<<"b", "i", "n", " ", "x">>, status, garbage)

\* the names at the limits of the buffers of the callers: a name that
\* fills outfile[FLEN_FILENAME] of ffinit and infile[FLEN_FILENAME] of
\* ffopen and ffextn, an extension name that fills extname[FLEN_VALUE], and
\* one that fills errmsg[FLEN_ERRMSG] when the move to it fails
EntryLimits ==
  /\ Within(EntryCap, 1)
  /\ \/ Create(LongName(FLEN_FILENAME), "OK", Harm)
     \/ Open(LongName(FLEN_FILENAME), 0, "OK", Harm)
     \/ ExtensionOf(LongName(FLEN_FILENAME), "OK", Harm)
     \/ Open(NamedExtension(FLEN_VALUE), 0, "OK", Calm)
     \/ \E o \in Failing({"move"}) :
          Open(NamedExtension(FLEN_ERRMSG - Len(MSG_extname) - 1), 0, "OK", o)

NextEntry ==
  \/ EntryLimits
  \/ EntryOpen
  \/ EntryOpenMemory
  \/ EntryCreate
  \/ EntryCreateFromTemplate
  \/ EntryReopen
  \/ EntryExtensionOf
  \/ EntryParse

SpecEntry == Init /\ [][NextEntry]_vars

\* --- the registry: drivers of the caller beside those of the library ---

\* the fitsfile structures allocated by the calls with a registry
RegistryCap == 2

RegistryRegister ==
  \E prefix \in {STR_x, STR_file}, impl \in {"A", "B"},
     initret \in {"OK", "DRIVER_ERROR"} :
       Register(prefix, impl, initret)

RegistryOpen ==
  \E name \in {U_x, U_q, U_f} :
    Within(RegistryCap, 1) /\ Open(name, 0, "OK", Calm)

RegistryCreate ==
  \E name \in {U_x, U_q, U_c} :
    Within(RegistryCap, 1) /\ Create(name, "OK", Calm)

RegistryClose == \E h \in 1..MaxHandles : Close(h, "OK", Calm)

NextRegistry ==
  \/ RegistryRegister
  \/ RegistryOpen
  \/ RegistryCreate
  \/ RegistryClose

SpecRegistry == Init /\ [][NextRegistry]_vars

\* --- the full registry: the caller registers until the table is full ---

\* the fitsfile structures allocated by the calls with a full registry
FullCap == 1

FullRegister ==
  \E prefix \in {STR_x, NullStr}, initret \in {"OK", "DRIVER_ERROR"} :
    RegisterAny(prefix, "A", initret)

FullRegisterOther ==
  \E initret \in {"OK", "DRIVER_ERROR"} : Register(STR_x, "B", initret)

FullOpen ==
  \E name \in {U_x, U_f} : Within(FullCap, 1) /\ Open(name, 0, "OK", Calm)

FullClose == \E h \in 1..MaxHandles : Close(h, "OK", Calm)

NextFull ==
  \/ FullRegister
  \/ FullRegisterOther
  \/ FullOpen
  \/ FullClose

SpecFull == Init /\ [][NextFull]_vars

\* --- the start of the library: the first calls, in every build ---

\* the builds with and without the network and the shared memory drivers
AllBuilds ==
  {Build(net, shmem, TRUE, "read_then_increment") : net, shmem \in BOOLEAN}

\* the fitsfile structures allocated by the first calls
StartCap == 2

StartOpen ==
  \E name \in {U_f, U_g}, o \in {Calm} \cup InitFails :
    Within(StartCap, 1) /\ Open(name, 0, "OK", o)

StartOpenMemory ==
  \E o \in {Calm} \cup InitFails :
    Within(StartCap, 1) /\ OpenMemory(U_mem, 0, "OK", o)

StartCreate ==
  \E o \in {Calm} \cup InitFails : Within(StartCap, 1) /\ Create(U_c, "OK", o)

StartClose == \E h \in 1..MaxHandles : Close(h, "OK", Calm)

NextStart ==
  \/ StartOpen
  \/ StartOpenMemory
  \/ StartCreate
  \/ StartClose

SpecStart == InitWith(AllBuilds) /\ [][NextStart]_vars

\* --- drivers without some of their functions ---

U_memkeep == STR_memkeep \o <<"c">>

\* the functions that the driver of the caller can be registered without
AbsentSets ==
  {{}, {"open"}, {"create"}, {"size"}, {"close"}, {"seek", "read", "write"}}

\* the drivers the caller registers, and the fitsfile structures allocated
AbsentDrivers == 1

AbsentCap == 2

\* "x://" without each of the sets, and "memkeep://", the type that ffomem
\* looks up, without the size function
AbsentRegister ==
  \E d \in {<<STR_x, lacking>> : lacking \in AbsentSets}
            \cup {<<STR_memkeep, {"size"}>>} :
    UserDrivers < AbsentDrivers /\ RegisterPartial(d[1], d[2], "OK")

AbsentOpen ==
  \E name \in {U_blank, U_mem, U_x, U_f} :
    Within(AbsentCap, 1) /\ Open(name, 0, "OK", Calm)

AbsentOpenMemory == Within(AbsentCap, 1) /\ OpenMemory(U_mem, 0, "OK", Calm)

AbsentCreate ==
  \E name \in {U_blank, U_c, U_x, U_memkeep} :
    Within(AbsentCap, 1) /\ Create(name, "OK", Calm)

AbsentClose == \E h \in 1..MaxHandles : Close(h, "OK", Calm)

AbsentDelete == \E h \in 1..MaxHandles : Delete(h, "OK", Calm)

AbsentTruncate ==
  \E h \in 1..MaxHandles, status \in Statuses, ret \in {"OK", "DRIVER_ERROR"} :
    Truncate(h, 0, status, ret)

AbsentFlush ==
  \E h \in 1..MaxHandles, ret \in {"OK", "DRIVER_ERROR"} : Flush(h, ret)

AbsentSeek ==
  \E h \in 1..MaxHandles, ret \in {"OK", "DRIVER_ERROR"} : Seek(h, ret)

AbsentWrite ==
  \E h \in 1..MaxHandles, status \in Statuses, ret \in {"OK", "DRIVER_ERROR"} :
    Write(h, status, ret)

AbsentRead ==
  \E h \in 1..MaxHandles, status \in Statuses, ret \in {"OK", "DRIVER_ERROR"} :
    Read(h, status, ret)

NextAbsent ==
  \/ AbsentRegister
  \/ AbsentOpen
  \/ AbsentOpenMemory
  \/ AbsentCreate
  \/ AbsentClose
  \/ AbsentDelete
  \/ AbsentTruncate
  \/ AbsentFlush
  \/ AbsentSeek
  \/ AbsentWrite
  \/ AbsentRead

SpecAbsent == Init /\ [][NextAbsent]_vars

\* --- checkfile: the driver looks at the file before it is opened ---

STR_q == <<"q", ":", "/", "/">>

\* the fitsfile structures allocated by the calls with a check
CheckCap == 2

CheckRegister ==
  \E prefix \in {STR_q, STR_compress} : Register(prefix, "A", "OK")

CheckOpen ==
  \E name \in {U_f, U_g, U_f1}, o \in {Calm} \cup Checks :
    Within(CheckCap, 1) /\ Open(name, 0, "OK", o)

CheckClose == \E h \in 1..MaxHandles : Close(h, "OK", Calm)

NextCheck ==
  \/ CheckRegister
  \/ CheckOpen
  \/ CheckClose

SpecCheck == Init /\ [][NextCheck]_vars

\* --- clobber: the names of the files to create, with and without '!' ---

U_bclob   == <<" ", "!", "c">>
U_xclob   == <<"!">> \o U_x
U_memclob == <<"!">> \o STR_mem \o <<"c">>

\* the fitsfile structures allocated by the calls with a clobber
ClobberCap == 2

ClobberRegister ==
  \E lacking \in {{}, {"remove"}, {"create"}} :
    UserDrivers < AbsentDrivers /\ RegisterPartial(STR_x, lacking, "OK")

ClobberCreate ==
  \E name \in {U_c, U_clob, U_bclob, U_x, U_xclob, U_memclob},
     o \in {Calm} \cup Failing({"create"}) :
       Within(ClobberCap, 1) /\ Create(name, "OK", o)

ClobberClose == \E h \in 1..MaxHandles : Close(h, "OK", Calm)

NextClobber ==
  \/ ClobberRegister
  \/ ClobberCreate
  \/ ClobberClose

SpecClobber == Init /\ [][NextClobber]_vars

\* --- the last close: with and without an earlier error, a failing
\* --- flush, a failing close of the driver

\* the fitsfile structures allocated by the calls before a close
CloseCap == 2

\* what can go wrong while a file is closed
CloseOracles ==
  {Calm, [Calm EXCEPT !.dclose = FALSE], [Calm EXCEPT !.fail = "ffchdu"],
   [Calm EXCEPT !.dclose = FALSE, !.fail = "ffchdu"]}

LastOpen ==
  \E name \in {U_f, U_g} : Within(CloseCap, 1) /\ Open(name, 0, "OK", Calm)

LastCreate == Within(CloseCap, 1) /\ Create(U_c, "OK", Calm)

LastClose ==
  \E h \in 1..MaxHandles, status \in Statuses, o \in CloseOracles :
    Close(h, status, o)

NextClose ==
  \/ LastOpen
  \/ LastCreate
  \/ LastClose

SpecClose == Init /\ [][NextClose]_vars

\* --- ffextn: the names with and without an extension ---

U_plus   == <<"d", "+", "1", "2">>
U_in     == <<"-", "[", "e", "]">>
U_in_e   == <<"-", "f", "[", "e", "]">>
U_ebin   == <<"f", "[", "e", "]", "[", "b", "i", "n", " ", "x", "]">>
U_efilt  == <<"f", "[", "e", "]", "[", "a", "]">>

\* the fitsfile structures allocated by the calls around ffextn
ExtnCap == 2

ExtnOpen ==
  \E name \in {U_f, U_f1}, mode \in {0, 1} :
    Within(ExtnCap, 1) /\ Open(name, mode, "OK", Calm)

ExtnClose == \E h \in 1..MaxHandles : Close(h, "OK", Calm)

ExtnExtensionOf ==
  \E url \in {U_f, U_plus, U_f1, U_fe, U_fbin, U_in, U_in_e, U_ebin,
               U_efilt},
     o \in {Calm} \cup Failing({"dopen"}) :
       Within(ExtnCap, 1) /\ ExtensionOf(url, "OK", o)

NextExtn ==
  \/ ExtnOpen
  \/ ExtnClose
  \/ ExtnExtensionOf

SpecExtn == Init /\ [][NextExtn]_vars

\* --- ffextn beside ffopen: the same names given to both ---

U_f0 == <<"f", "[", "0", "]">>

\* the fitsfile structures allocated by the calls of ffopen
AgreeCap == 3

AgreeOpen ==
  \E name \in {U_f, U_f0, U_f1, U_f2, U_fe, U_fsel, U_efilt, U_plus, U_fbin,
               U_in} :
    Within(AgreeCap, Need(name)) /\ Open(name, 0, "OK", Calm)

AgreeOpenFails ==
  \E o \in Failing({"sel_select_rows"}) :
    Within(AgreeCap, 2) /\ Open(U_fsel, 0, "OK", o)

AgreeClose == \E h \in 1..MaxHandles : Close(h, "OK", Calm)

NextAgree ==
  \/ AgreeOpen
  \/ AgreeOpenFails
  \/ AgreeClose

SpecAgree == Init /\ [][NextAgree]_vars

\* --- fftplt: files created from a template, with each step failing ---

\* the fitsfile structures allocated by the calls with a template
TemplateCap == 3

\* other contents of the two files: a new file with no keyword, an ASCII
\* template of one card, of an END line alone, and of no line, and one
\* with a line that begins with a NUL byte, first or after a card
TemplateContents ==
  {[Calm EXCEPT !.nkeys = 0]}
    \cup {[Calm EXCEPT !.lines = ls] : ls \in {<<"card">>, <<"END">>, << >>}}
    \cup {[Calm EXCEPT !.lines = ls, !.harm = harm] :
            ls \in {<<"NUL">>, <<"NUL", "END", "card">>, <<"card", "NUL">>},
            harm \in BOOLEAN}
    \cup {[Calm EXCEPT !.fail = "tpl_parse", !.lines = << >>]}

TemplateCreate ==
  \E name \in {U_c, U_g}, tempname \in {NullStr, << >>, U_f, U_f1, U_q},
     o \in {Calm} \cup Failing(TemplateSteps) \cup TemplateContents :
    /\ Within(TemplateCap, 1 + (IF tempname \in {NullStr, << >>} THEN 0
                                ELSE Need(tempname)))
    /\ CreateFromTemplate(name, tempname, "OK", o)

TemplateCreateNot ==
  \E status \in Statuses \ {"OK"} :
    Within(TemplateCap, 2) /\ CreateFromTemplate(U_c, U_f, status, Calm)

TemplateOpen == Within(TemplateCap, 1) /\ Open(U_f, 0, "OK", Calm)

TemplateClose == \E h \in 1..MaxHandles : Close(h, "OK", Calm)

NextTemplate ==
  \/ TemplateCreate
  \/ TemplateCreateNot
  \/ TemplateOpen
  \/ TemplateClose

SpecTemplate == Init /\ [][NextTemplate]_vars

\* --- the parsers of names: ffiurl, ffourl and ffrtnm on the same names ---

U_S2     == <<" ", "f", "t", "p", ":", "h", "o", "s", "t", "/", "d", "i", "r", "/", "f", ".", "f", "i", "t", "s", "(", "c", "a", "c", "h", "e", ".", "f", "i", "t", "s", ")", "[", "2", "]", "[", "b", "i", "n", " ", "x", ",", "y", "]">>
U_xfits3 == <<"x", ".", "f", "i", "t", "s", "+", "3">>
U_data12 == <<"d", "a", "t", "a", ".", "f", "i", "t", "s", "+", "1", "2">>

\* how a name begins: blank, stdin/stdout, the short and the explicit types
ParseTransports ==
  {<<>>, <<" ">>, <<"-">>, <<"f", "t", "p", ":">>,
   <<"h", "t", "t", "p", ":">>, <<"m", "e", "m", ":">>,
   <<"s", "h", "m", "e", "m", ":">>, <<"f", "i", "l", "e", ":">>,
   <<"f", "i", "l", "e", ":", "/", "/">>, <<"x", ":", "/", "/">>}

\* the file name that follows
ParseBodies ==
  {<<>>, <<"a">>, <<"a", " ">>, <<"x", "+", "3">>, <<"x", "+", "1", "2">>,
   <<"x", "+", "1", "2", "3">>, <<"x", "+", "1", "2", "3", "4">>,
   <<"x", "+", "1", "2", "3", "4", "5">>, <<"+", "3">>, <<"x", "+">>,
   <<"1", "2">>, <<"h", "/", "b">>}

\* the output name and the brackets that follow
ParseTails ==
  {<<>>, <<"(", "o", ")">>, <<"(", "*", ")">>, <<"(", "o">>,
   <<"[", "2", "]">>, <<"[", "2">>, <<"[", "e", "]", "[", "A", "]">>,
   <<"(", "o", ")", "[", "2", "]", "[", "b", "i", "n", " ", "x", ",", "y", "]">>}

\* a file name after each beginning, each ending after a file name, and
\* each ending after each beginning
ParseUrls ==
  {p \o b : p \in ParseTransports, b \in ParseBodies}
    \cup {b \o t : b \in ParseBodies, t \in ParseTails}
    \cup {p \o <<"h", "/", "b">> \o t : p \in ParseTransports, t \in ParseTails}
    \cup {U_S2, Tail(U_S2), U_xfits3, U_data12}

\* a type of k characters, "://" included
LongType(k) == LongName(k - 3) \o STR_sep

\* the names at the limits of urltype[MAX_PREFIX_LEN] and of the
\* infile[FLEN_FILENAME] of ffrtnm
ParseLimits ==
  \/ ParseInput(LongType(MAX_PREFIX_LEN) \o <<"a", "b", "c", "d", "(">>, "OK")
  \/ ParseOutput(LongType(MAX_PREFIX_LEN - 1) \o <<"a">>, "OK")
  \/ \E k \in {FLEN_FILENAME - 1, FLEN_FILENAME} :
       ParseRoot(LongName(k), "OK")

ParseAnyInput ==
  \/ \E url \in ParseUrls : ParseInput(url, "OK")
  \/ \E url \in {U_S2, U_xfits3} : ParseInput(url, "PRIOR_ERROR")

ParseAnyOutput ==
  \/ \E url \in ParseUrls : ParseOutput(url, "OK")
  \/ \E url \in {U_S2, U_xfits3} : ParseOutput(url, "PRIOR_ERROR")

ParseAnyRoot ==
  \/ \E url \in ParseUrls : ParseRoot(url, "OK")
  \/ \E url \in {U_S2, U_xfits3} : ParseRoot(url, "PRIOR_ERROR")

NextParse ==
  \/ ParseAnyInput
  \/ ParseAnyOutput
  \/ ParseAnyRoot
  \/ ParseLimits

SpecParse == Init /\ [][NextParse]_vars

\* --- ffbins on binning specifiers built from their parts ---

STR_bin == <<"b", "i", "n">>

\* the letters for the image type that can follow "bin"
BinLetters == {<< >>, <<"i">>, <<"j">>, <<"r">>, <<"d">>, <<"b">>}

\* the lists of column names in parentheses, of one to four names
BinColumns ==
  {<< <<"X">> >>, << <<"X">>, <<"Y">> >>, << <<"X">>, <<"Y">>, <<"Z">> >>,
   << <<"X">>, <<"Y">>, <<"Z">>, <<"T">> >>}

\* the range specifiers, each with the min, max and binsize that it states
BinRanges ==
  {[text |-> <<":", "1", "0", ":", "1">>, min |-> DOUBLENULLVALUE,
    max |-> Number(FALSE, 10, 0), size |-> Number(FALSE, 1, 0)],
   [text |-> <<"1", ":", "5">>, min |-> Number(FALSE, 1, 0),
    max |-> Number(FALSE, 5, 0), size |-> DOUBLENULLVALUE],
   [text |-> <<"0", ":", "9", ":", "3">>, min |-> Number(FALSE, 0, 0),
    max |-> Number(FALSE, 9, 0), size |-> Number(FALSE, 3, 0)],
   [text |-> <<":", ":", "4">>, min |-> DOUBLENULLVALUE,
    max |-> DOUBLENULLVALUE, size |-> Number(FALSE, 4, 0)],
   [text |-> <<"2">>, min |-> DOUBLENULLVALUE,
    max |-> DOUBLENULLVALUE, size |-> Number(FALSE, 2, 0)]}

\* the names of the list with commas between them
RECURSIVE BinJoin(_)
BinJoin(cols) ==
  IF Len(cols) = 1 THEN cols[1]
  ELSE cols[1] \o <<",">> \o BinJoin(Tail(cols))

\* "bin[x] (c1,...,ck)=range"
BinParen(letter, cols, range) ==
  STR_bin \o letter \o <<" ", "(">> \o BinJoin(cols) \o <<")", "=">> \o range

\* the specifiers without a weight: a number alone, columns, ranges
BinBodies ==
  {<<"b", "i", "n", " ", "4">>, <<"b", "i", "n", "i", " ", "4">>,
   <<"b", "i", "n", " ", "1", "6">>, <<"b", "i", "n", " ", "x">>,
   <<"b", "i", "n", " ", "x", ",", "y">>,
   <<"b", "i", "n", " ", "x", "=", "1", ":", "5">>,
   <<"b", "i", "n", " ", "x", "=", "1", ":", "5", ",", "y", "=", "2">>,
   <<"b", "i", "n", " ", "(", "X", ",", "Y", ")", "=", "1">>}

\* the weight clauses, each with the reciprocal flag, the value and the name
\* that it states
BinWeights ==
  {[text |-> <<";", "2">>, recip |-> 0, weight |-> Number(FALSE, 2, 0),
    wtname |-> << >>],
   [text |-> <<";", "/", "2">>, recip |-> 1, weight |-> Number(FALSE, 2, 0),
    wtname |-> << >>],
   [text |-> <<";", "w">>, recip |-> 0, weight |-> Number(FALSE, 1, 0),
    wtname |-> <<"w">>],
   [text |-> <<";", " ", "/", " ", "w">>, recip |-> 1, weight |-> Number(FALSE, 1, 0),
    wtname |-> <<"w">>],
   [text |-> <<";", " ", "0", ".", "5">>, recip |-> 0, weight |-> Number(FALSE, 5, 1),
    wtname |-> << >>]}

\* a decimal text of the double that FLOATNULLVALUE is
FloatNullText ==
  <<"-", "0", ".">> \o [i \in 1..NullZeros |-> "0"]
    \o <<"9", "1", "1", "9", "1", "1", "9", "8", "4", "0", "5", "9", "6", "1", "5", "3">>

\* the specifiers at the limits: a range from and to the value of
\* FLOATNULLVALUE, and names that fill tmpname[30] and token[FLEN_VALUE]
BinLimits ==
  {STR_bin \o <<" ">> \o FloatNullText \o <<":">> \o FloatNullText \o <<":", "4">>,
   <<"b", "i", "n", " ", "x", ";">> \o LongName(TmpnameLen) \o <<":">>,
   <<"b", "i", "n", " ", "x", ";">> \o LongName(TmpnameLen - 1) \o <<":">>,
   <<"b", "i", "n", " ", "(", "x", ")", "=">> \o LongName(TmpnameLen),
   STR_bin \o <<" ">> \o LongName(FLEN_VALUE)}

\* specifiers with ranges that begin with '=': two calls of ffbinr in one
\* call of ffbins read their locals before anything was assigned to them
BinUnnamed ==
  {<<"b", "i", "n", " ", "(", "x", ",", "y", ")", "=", "=", "5", ";", "=", "2">>,
   <<"b", "i", "n", " ", "x", ",", "=", "5", ",", "=", "7">>,
   <<"b", "i", "n", " ", "=", "5", ";", "=", "2">>}

BinSpecs ==
  {BinParen(l, c, r.text) : l \in BinLetters, c \in BinColumns, r \in BinRanges}
    \cup BinBodies
    \cup {b \o w.text : b \in BinBodies, w \in BinWeights}
    \cup BinLimits
    \cup BinUnnamed
    \cup {<<"b", "i", "n">>, <<"b", "i", "n", " ", "(", "X", ",", "Y", ")">>,
          <<"b", "i", "n", " ", "(", "X", ",", "Y", ")", ";", "2">>,
          <<"b", "i", "n", " ", "(", "X", ",", "Y", ",", "Z", ",", "T", ",", "U", ")", "=", "1">>}

BinsParse ==
  \E binspec \in BinSpecs, garbage \in Garbages :
    ParseBinspec(binspec, "OK", garbage)

BinsParseNot ==
  \E binspec \in BinBodies : ParseBinspec(binspec, "PRIOR_ERROR", NoGarbage)

NextBins ==
  \/ BinsParse
  \/ BinsParseNot

SpecBins == Init /\ [][NextBins]_vars

\* --- allocations that fail: each operation with each of its allocations
\* --- failing

\* the fitsfile structures allocated while allocations fail
AllocCap == 2

\* the allocations of the operations: the work strings of ffiurl for the
\* name and for the name of an open file, the fitsfile of a reuse, the
\* three of a new file, those of the scratch file of a row filter, and the
\* two of ffdelt
AllocSteps ==
  {"nomem_url", "nomem_old", "alloc_reuse", "alloc_fptr", "alloc_Fptr",
   "alloc_name", "sel_alloc_fptr", "sel_alloc_Fptr", "sel_alloc_name",
   "alloc_basename", "nomem_basename"}

\* the allocations that one operation makes
AllocOf(op) ==
  CASE op = "ffopen" -> AllocSteps \ {"alloc_basename", "nomem_basename"}
    [] op = "ffomem" -> {"nomem_url", "alloc_fptr", "alloc_Fptr", "alloc_name"}
    [] op = "ffinit" -> {"alloc_fptr", "alloc_Fptr", "alloc_name"}
    [] op = "ffreopen" -> {"alloc_fptr"}
    [] op = "ffdelt" -> {"alloc_basename", "nomem_basename"}
    [] OTHER -> {}

AllocOracles(op) == {Calm} \cup Failing(AllocOf(op))

AllocOpen ==
  \E name \in {U_f, U_fsel}, o \in AllocOracles("ffopen") :
    Within(AllocCap, Need(name)) /\ Open(name, 0, "OK", o)

AllocOpenMemory ==
  \E o \in AllocOracles("ffomem") :
    Within(AllocCap, 1) /\ OpenMemory(U_mem, 0, "OK", o)

AllocCreate ==
  \E o \in AllocOracles("ffinit") :
    Within(AllocCap, 1) /\ Create(U_c, "OK", o)

AllocReopen ==
  \E h \in 1..MaxHandles, o \in AllocOracles("ffreopen") :
    Within(AllocCap, 1) /\ Reopen(h, "OK", o)

AllocDelete ==
  \E h \in 1..MaxHandles, o \in AllocOracles("ffdelt") : Delete(h, "OK", o)

AllocParse ==
  \E nomem \in BOOLEAN :
    Parsed("ffiurl", U_fsel, "OK",
           ffiurl(U_fsel, IurlOutputs, "OK", nomem, build.order))

NextAlloc ==
  \/ AllocOpen
  \/ AllocOpenMemory
  \/ AllocCreate
  \/ AllocReopen
  \/ AllocDelete
  \/ AllocParse

SpecAlloc == Init /\ [][NextAlloc]_vars

\* --- the access mode: files opened READONLY (0) and READWRITE (1), then
\* --- written, truncated, deleted

\* the fitsfile structures allocated with the two modes
ModeCap == 2

ModeOpen ==
  \E name \in {U_f, U_g}, mode \in {0, 1} :
    Within(ModeCap, 1) /\ Open(name, mode, "OK", Calm)

ModeReopen == \E h \in 1..MaxHandles : Within(ModeCap, 1) /\ Reopen(h, "OK", Calm)

ModeWrite ==
  \E h \in 1..MaxHandles, ret \in {"OK", "DRIVER_ERROR"} : Write(h, "OK", ret)

ModeTruncate ==
  \E h \in 1..MaxHandles, ret \in {"OK", "DRIVER_ERROR"} :
    Truncate(h, 0, "OK", ret)

ModeClose == \E h \in 1..MaxHandles : Close(h, "OK", Calm)

ModeDelete == \E h \in 1..MaxHandles : Delete(h, "OK", Calm)

NextMode ==
  \/ ModeOpen
  \/ ModeReopen
  \/ ModeWrite
  \/ ModeTruncate
  \/ ModeClose
  \/ ModeDelete

SpecMode == Init /\ [][NextMode]_vars

\* --- Handles that are no longer valid: the caller passes a null Handle
\* --- or one that it has given to ffclos or ffdelt before

\* the fitsfile structures allocated while Handles are used again
InvalidCap == 2

\* what a read of freed memory gives: the zero that ffclos left, or not
StaleOracles == {Calm, [Calm EXCEPT !.stale = "crash"]}

\* the caller has the value h: null, or a Handle that was returned once
Issued(h) == IF h = 0 THEN TRUE ELSE fptr[h].mem # "none"

InvalidOpen ==
  \E name \in {U_f, U_g} : Within(InvalidCap, 1) /\ Open(name, 0, "OK", Calm)

InvalidReopen ==
  \E h \in 0..MaxHandles, o \in StaleOracles :
    /\ ~ub /\ Issued(h) /\ Within(InvalidCap, 1) /\ Room(1)
    /\ Return(Call("ffreopen", NullStr, NullStr, h, 0, "OK"),
              ffreopen(World, h, "OK", o))

InvalidClose ==
  \E h \in 0..MaxHandles, o \in StaleOracles, status \in Statuses :
    /\ ~ub /\ Issued(h)
    /\ Drop(Call("ffclos", NullStr, NullStr, h, 0, status),
            ffclos(World, h, status, o), h)

InvalidDelete ==
  \E h \in 0..MaxHandles, o \in StaleOracles, status \in Statuses :
    /\ ~ub /\ Issued(h)
    /\ Drop(Call("ffdelt", NullStr, NullStr, h, 0, status),
            ffdelt(World, h, status, o), h)

NextInvalid ==
  \/ InvalidOpen
  \/ InvalidReopen
  \/ InvalidClose
  \/ InvalidDelete

SpecInvalid == Init /\ [][NextInvalid]_vars

\* --- the steps of an open: every name with every step failing in turn

U_all == <<"f", "[", "1", "]", "[", "a", "]", "[", "b", "i", "n", " ", "x", "]">>
U_fex == <<"f", "[", "e", ",", "x", "]">>

\* the fitsfile structures allocated while the steps of an open are tried
OrderCap == 3

\* the steps of an open that fail one at a time
OrderSteps ==
  {"dopen", "size", "ffldrc", "ffrhdu", "move", "sel_create",
   "sel_select_rows", "hist_create", "hist_fill"}

OrderOracles == {Calm, [Calm EXCEPT !.check = "fail"]} \cup Failing(OrderSteps)

OrderNames == {U_f, U_f0, U_f2, U_fe, U_fex, U_fcol, U_fbin, U_all, U_q}

\* the first open, with every step failing in turn
OrderOpen ==
  \E name \in OrderNames, o \in OrderOracles :
    FreeHandles(World) = MaxHandles /\ Open(name, 0, "OK", o)

\* the opens after it, which can find the file open
OrderAgain ==
  \E name \in {U_f, U_f2, U_fe, U_fcol, U_fbin},
     o \in {Calm} \cup Failing({"move"}) :
    /\ FreeHandles(World) < MaxHandles
    /\ Within(OrderCap, Need(name)) /\ Open(name, 0, "OK", o)

OrderClose == \E h \in 1..MaxHandles : Close(h, "OK", Calm)

NextOrder ==
  \/ OrderOpen
  \/ OrderAgain
  \/ OrderClose

SpecOrder == Init /\ [][NextOrder]_vars

\* ------------------------------------------------------------------------
\* SpecSelect: ffselect_table called on the Handles of open files, with
\* each of its steps failing in turn
\* ------------------------------------------------------------------------

SelectCap == 3

E_a == <<"[", "a", "]">>

SelectOracles ==
  {Calm, [Calm EXCEPT !.dclose = FALSE]} \cup Failing(SelectSteps)
    \cup Failing({"ffchdu"})

\* ffselect_table(&fptr, expr, &status) called with the Handle h: the
\* caller is left with the Handle that the call leaves in fptr
SelectTable(h, expr, status, o) ==
  /\ ~ub
  /\ h \in held
  /\ Room(1)
  /\ Commit(ffselect_table(World, h, expr, status, o).w)
  /\ held' = (held \ {h}) \cup {ffselect_table(World, h, expr, status, o).fptr}
  /\ last' = Returned(Call("ffselect_table", expr, NullStr, h, 0, status),
                      ffselect_table(World, h, expr, status, o))

SelectOpen ==
  \E name \in {U_f, U_f2, U_g} :
    Within(SelectCap, Need(name)) /\ Open(name, 0, "OK", Calm)

SelectRows ==
  \E h \in 1..MaxHandles, status \in {"OK", "EXTERNAL_ERROR"},
     o \in SelectOracles :
    Within(SelectCap, 1) /\ SelectTable(h, E_a, status, o)

SelectClose == \E h \in 1..MaxHandles : Close(h, "OK", Calm)

NextSelect == SelectOpen \/ SelectRows \/ SelectClose

SpecSelect == Init /\ [][NextSelect]_vars

\* ------------------------------------------------------------------------
\* SpecExts: ffexts applied to extension specifiers made of their parts
\* ------------------------------------------------------------------------

ExtsBlanks == {<< >>, <<" ">>}

\* the specifiers that begin with a digit, each with the integer that it
\* begins with when that is at most 9999
ExtsNumbers ==
  {[text |-> <<"0">>, inrange |-> TRUE, value |-> 0],
   [text |-> <<"7">>, inrange |-> TRUE, value |-> 7],
   [text |-> <<"0", "0", "7">>, inrange |-> TRUE, value |-> 7],
   [text |-> <<"1", "2", "x">>, inrange |-> TRUE, value |-> 12],
   [text |-> <<"3", ",", "b">>, inrange |-> TRUE, value |-> 3],
   [text |-> <<"9", "9", "9", "9">>, inrange |-> TRUE, value |-> 9999],
   [text |-> <<"1", "0", "0", "0", "0">>, inrange |-> FALSE, value |-> 0],
   [text |-> <<"2", "1", "4", "7", "4", "8", "3", "6", "4", "7">>,
    inrange |-> FALSE, value |-> 0],
   [text |-> <<"2", "1", "4", "7", "4", "8", "3", "6", "4", "8">>,
    inrange |-> FALSE, value |-> 0],
   [text |-> <<"4", "2", "9", "4", "9", "6", "7", "2", "9", "7">>,
    inrange |-> FALSE, value |-> 0]}

ExtsNames == {<<"e">>, <<"a", "1">>, <<"E", "+", "x">>}

ExtsSeparators == {<<",">>, <<":", " ">>}

\* the version fields, each with the integer that it is, if it is one
ExtsVersions ==
  {[text |-> <<"2">>, integer |-> TRUE, value |-> 2],
   [text |-> <<"1", "2">>, integer |-> TRUE, value |-> 12],
   [text |-> <<"-", "1">>, integer |-> TRUE, value |-> 0 - 1],
   [text |-> <<"x">>, integer |-> FALSE, value |-> 0],
   [text |-> <<"b">>, integer |-> FALSE, value |-> 0],
   [text |-> <<"2", "b">>, integer |-> FALSE, value |-> 0]}

\* the texts after the version, each with the kind of HDU that it stands
\* for, "none" when it stands for none
ExtsKinds ==
  {[text |-> << >>, kind |-> "ANY_HDU"],
   [text |-> <<"b">>, kind |-> "BINARY_TBL"],
   [text |-> <<"B">>, kind |-> "BINARY_TBL"],
   [text |-> <<"t">>, kind |-> "ASCII_TBL"],
   [text |-> <<"T">>, kind |-> "ASCII_TBL"],
   [text |-> <<"a">>, kind |-> "ASCII_TBL"],
   [text |-> <<"A">>, kind |-> "ASCII_TBL"],
   [text |-> <<"i">>, kind |-> "IMAGE_HDU"],
   [text |-> <<"I">>, kind |-> "IMAGE_HDU"],
   [text |-> <<"q">>, kind |-> "none"],
   [text |-> <<"Z">>, kind |-> "none"]}

\* "name,version,kind", the last separator only before a kind
ExtsText(name, sep1, v, sep2, k) ==
  name \o sep1 \o v.text \o (IF k.text = << >> THEN << >> ELSE sep2 \o k.text)

ExtsParseNumber ==
  \E blanks \in ExtsBlanks, n \in ExtsNumbers :
    ParseExtspec(blanks \o n.text, "OK")

ExtsParseName ==
  \E blanks \in ExtsBlanks, name \in ExtsNames \cup {<< >>} :
    ParseExtspec(blanks \o name, "OK")

ExtsParseNamed ==
  \E name \in ExtsNames, sep1 \in ExtsSeparators, v \in ExtsVersions,
     sep2 \in ExtsSeparators, k \in ExtsKinds :
    ParseExtspec(ExtsText(name, sep1, v, sep2, k), "OK")

\* version fields that begin with white space other than the blank
ExtsWhite ==
  {<<"e", ",", "\t", "5">>, <<"e", ",", VT, "5", ",", "b">>,
   <<"e", ",", "\n", "\r", "7">>, <<"e", ",", "\f", "x">>}

ExtsParseWhite ==
  \E extspec \in ExtsWhite : ParseExtspec(extspec, "OK")

NextExts ==
  \/ ExtsParseNumber
  \/ ExtsParseName
  \/ ExtsParseNamed
  \/ ExtsParseWhite

SpecExts == Init /\ [][NextExts]_vars

\* ------------------------------------------------------------------------
\* SpecIndep: files opened while files created under other names, some of
\* which ffiurl does not parse, are open
\* ------------------------------------------------------------------------

IndepCap == 3

U_cparen   == <<"c", "(">>
U_cbracket == <<"c", "[">>

\* the parse of a stored name writes outside its buffer, and this time the
\* write does harm or it does not
IndepOracles == {Calm, [Calm EXCEPT !.harm = TRUE]}

IndepCreate ==
  \E name \in {U_c, U_cparen, U_cbracket, STR_mem} :
    Within(IndepCap, 1) /\ Create(name, "OK", Calm)

IndepOpen ==
  \E name \in {U_f, U_g}, o \in IndepOracles :
    Within(IndepCap, 1) /\ Open(name, 0, "OK", o)

IndepClose == \E h \in 1..MaxHandles : Close(h, "OK", Calm)

NextIndep == IndepCreate \/ IndepOpen \/ IndepClose

SpecIndep == Init /\ [][NextIndep]_vars

\* ------------------------------------------------------------------------
\* SpecAttach: files opened again under names whose extension is not
\* parsed or not found
\* ------------------------------------------------------------------------

AttachCap == 3

AttachOpen ==
  \E name \in {U_f, U_f2, U_fe, U_fex, U_g},
     o \in {Calm} \cup Failing({"move", "dopen"}) :
    Within(AttachCap, 1) /\ Open(name, 0, "OK", o)

AttachClose == \E h \in 1..MaxHandles : Close(h, "OK", Calm)

NextAttach == AttachOpen \/ AttachClose

SpecAttach == Init /\ [][NextAttach]_vars

\* ------------------------------------------------------------------------
\* The properties
\* ------------------------------------------------------------------------

\* the Handles in use for the FITSfile f: allocated, pointing to f and not
\* yet given to ffclos or ffdelt
Users(f) ==
  {h \in 1..MaxHandles :
     fptr[h].mem = "live" /\ fptr[h].Fptr = f /\ ~fptr[h].closed}

\* the Handles of the caller that are not yet closed
Open_Handles == {h \in held : fptr[h].mem = "live" /\ ~fptr[h].closed}

\* the functions that open or create a file for a driver
OpenFunctions ==
  ({driverTable[i].open : i \in 0..(MAX_DRIVERS - 1)}
     \cup {driverTable[i].create : i \in 0..(MAX_DRIVERS - 1)}
     \cup {"mem_openmem"}) \ {"NULL"}

\* the driver handles that the calls of a trace minted
Minted(trace) ==
  {trace[i].handle : i \in {j \in 1..Len(trace) :
                              /\ trace[j].ev \in OpenFunctions
                              /\ trace[j].handle # 0}}

\* the trace shows that ffopen attached to an open file
Attached(trace) == \E i \in 1..Len(trace) : trace[i].ev = "attach"

\* the trace shows a call of a driver's open function
OpenCalled(trace) ==
  \E i \in 1..Len(trace) :
    trace[i].ev \in {driverTable[k].open : k \in 0..(MAX_DRIVERS - 1)}
                      \ {"NULL"}

\* C1: a FITSfile that ffopen built and ffdelt did not release has, while it
\* is allocated, an open_count equal to the number of Handles obtained on
\* it and not yet closed, and its driver handle was never closed; once it
\* is freed, the driver's close was called exactly once for it.
C1_OpenCount ==
  \A f \in 1..MaxFiles :
    (Fptr[f].origin = "ffopen" /\ ~Fptr[f].deleted) =>
      /\ Fptr[f].mem = "live" =>
           /\ Fptr[f].open_count = Cardinality(Users(f))
           /\ Fptr[f].open_count >= 1
           /\ drvh[Fptr[f].filehandle].closes = 0
      /\ Fptr[f].mem = "freed" => drvh[Fptr[f].filehandle].closes = 1

\* open, reopen, close, close: the file is freed after one close of the
\* driver, the Handle of the first close is left allocated
C1_Witness ==
  \E f \in 1..MaxFiles, h1, h2 \in 1..MaxHandles :
    /\ last.op = "ffclos" /\ last.status = "OK"
    /\ Fptr[f].origin = "ffopen" /\ ~Fptr[f].deleted
    /\ Fptr[f].mem = "freed"
    /\ drvh[Fptr[f].filehandle].closes = 1
    /\ h1 # h2
    /\ fptr[h1].Fptr = f /\ fptr[h1].closed /\ fptr[h1].mem = "live"
    /\ fptr[h2].Fptr = f /\ fptr[h2].closed /\ fptr[h2].mem = "freed"
    /\ {fptr[h1].origin, fptr[h2].origin} = {"ffopen", "ffreopen"}

\* C2: no Handle of the caller that is not yet closed refers to a FITSfile
\* that is freed, whose filename is freed or whose driver handle is closed.
C2_NoDanglingHandle ==
  \A h \in Open_Handles :
    /\ Fptr[fptr[h].Fptr].mem = "live"
    /\ Fptr[fptr[h].Fptr].filename # NullStr
    /\ drvh[Fptr[fptr[h].Fptr].filehandle].state = "open"

\* C3: a valid FITSfile that a Handle of the caller refers to has an
\* open_count of 1 or more and a filename.
C3_ValidFileHasUser ==
  \A h \in Open_Handles :
    (/\ Fptr[fptr[h].Fptr].mem = "live"
     /\ Fptr[fptr[h].Fptr].validcode = "VALIDSTRUC") =>
      /\ Fptr[fptr[h].Fptr].open_count >= 1
      /\ Fptr[fptr[h].Fptr].filename # NullStr

\* C4: when ffclos has been called for the only Handle there ever was on a
\* FITSfile that ffinit built, the driver's close was called exactly once
\* for the file, the validcode is poisoned and the structure is freed.
C4_CreatedFileCloses ==
  \A h \in 1..MaxHandles :
    (/\ fptr[h].mem # "none"
     /\ fptr[h].closed
     /\ Fptr[fptr[h].Fptr].origin = "ffinit"
     /\ \A h2 \in 1..MaxHandles : h2 # h => fptr[h2].Fptr # fptr[h].Fptr) =>
      /\ Fptr[fptr[h].Fptr].mem = "freed"
      /\ Fptr[fptr[h].Fptr].validcode = "ZERO"
      /\ drvh[Fptr[fptr[h].Fptr].filehandle].closes = 1

\* C5: a FITSfile that ffdelt has released has no Handle left that is not
\* yet closed: while other Handles refer to the file, ffdelt neither closes
\* the driver handle nor frees the structure.
C5_DeleteKeepsShared ==
  \A f \in 1..MaxFiles :
    (Fptr[f].deleted /\ Fptr[f].mem = "freed") => Users(f) = {}

\* C6: when ffopen returns a status of 0 for a name under which the caller
\* has another Handle that is still open, the new Handle shares the
\* FITSfile of that Handle, the open_count is 2 or more and no driver's
\* open was called.
C6_SecondOpenShares ==
  \A h \in Open_Handles :
    (/\ last.op = "ffopen" /\ last.status = "OK"
     /\ last.fptr # 0 /\ last.fptr # h
     /\ fptr[h].opened_as = last.name
     /\ Fptr[fptr[h].Fptr].mem = "live") =>
      /\ fptr[last.fptr].Fptr = fptr[h].Fptr
      /\ Fptr[fptr[h].Fptr].open_count >= 2
      /\ ~OpenCalled(last.trace)

\* the condition of the reuse: n parses the name being opened, old the name
\* of an open file
ReuseCondition(n, old) ==
  /\ n.urltype = old.urltype
  /\ n.infile = old.infile
  /\ \/ /\ n.rowfilter = << >> /\ n.binspec = << >> /\ n.colspec = << >>
        /\ old.rowfilter = << >> /\ old.binspec = << >>
        /\ old.colspec = << >>
     \/ <<n.rowfilter, n.binspec, n.colspec, n.extspec>>
          = <<old.rowfilter, old.binspec, old.colspec, old.extspec>>

\* the parse of a name as ffopen begins with
InputOf(name) ==
  ffiurl(SkipBlanks(name), IurlOutputs, "OK", FALSE, build.order)

\* C7: an ffopen entered with a status of 0 and a name that parses attaches
\* to an open file if and only if the file of some I/O buffer has a name
\* that meets the condition of the reuse; in every other case a driver's
\* open is called.
C7_ReuseIff ==
  [][(/\ last'.op = "ffopen" /\ last'.status_in = "OK" /\ ~ub'
      /\ InputOf(last'.name).status = "OK") =>
       /\ Attached(last'.trace) <=>
            \E ii \in 0..(NIOBUF - 1) :
              /\ bufptr[ii] # 0
              /\ ReuseCondition(InputOf(last'.name),
                                InputOf(Fptr[bufptr[ii]].filename))
       /\ ~Attached(last'.trace) => OpenCalled(last.trace)']_vars

\* a second ffopen of a name with a row filter attached to the file that
\* the first, whose selection of the rows failed, left open
C7_Witness ==
  /\ last.op = "ffopen" /\ last.name = U_fsel /\ last.status = "OK"
  /\ Attached(last.trace)
  /\ Fptr[fptr[last.fptr].Fptr].filename = U_fsel
  /\ Fptr[fptr[last.fptr].Fptr].open_count = 2

\* C8: when ffopen, ffomem or ffinit returns a status other than 0 after a
\* driver opened or created a file in the call, the driver's close was
\* called exactly once for every such file and the Handle returned is
\* null.
C8_FailureUnwinds ==
  (/\ last.op \in {"ffopen", "ffomem", "ffinit"}
   /\ last.status # "OK"
   /\ Minted(last.trace) # {}) =>
    /\ last.fptr = 0
    /\ \A k \in Minted(last.trace) : drvh[k].closes = 1

\* the operations that test the status on entry
EntryOperations ==
  {"ffopen", "ffomem", "ffreopen", "ffinit", "fftplt", "ffextn", "ffiurl",
   "ffourl", "ffrtnm", "ffexts", "ffbins"}

\* C9: an operation that tests the status on entry and is entered with a
\* status other than 0 returns that status, leaves the library as it is
\* (not initialized, no structure allocated, no open_count changed), calls
\* no driver, returns no Handle and writes no output; ffexts alone sets its
\* outputs to their defaults before it tests the status.
C9_StickyStatus ==
  [][(last'.op \in EntryOperations /\ last'.status_in # "OK") =>
       /\ last'.status = last'.status_in
       /\ UNCHANGED libvars
       /\ held' = held
       /\ last'.trace = << >>
       /\ last'.fptr = 0
       /\ IF last'.op = "ffexts"
          THEN /\ last'.out.extnum = 0 /\ last'.out.extname = << >>
               /\ last'.out.extvers = 0 /\ last'.out.hdutype = "ANY_HDU"
          ELSE ~last'.out.written]_vars

\* the first call of the library is an fftplt entered with an error: the
\* library is not initialized by it
C9_Witness ==
  /\ last.op = "fftplt" /\ last.status_in = "PRIOR_ERROR"
  /\ last.status = "PRIOR_ERROR"
  /\ need_to_initialize

\* the urltype under which ffopen or ffinit looks up the driver
LookupType(op, name) ==
  IF op = "ffopen" THEN InputOf(name).urltype
  ELSE ffourl(IF Cur(SkipBlanks(name)) = "!" THEN Tail(SkipBlanks(name))
              ELSE SkipBlanks(name), "OK").urltype

\* the registered drivers whose stored prefix is the urltype
Matching(urltype) ==
  {i \in 0..(no_of_drivers - 1) : driverTable[i].prefix = urltype}

\* every call of the trace is the init function of a driver that is being
\* registered
OnlyRegistered(trace) ==
  \A i \in 1..Len(trace) :
    trace[i].ev \in {driverTable[k].init : k \in 0..(MAX_DRIVERS - 1)}
                      \ {"NULL"}

\* C10: urltype2driver gives the largest index of the registry whose stored
\* prefix is the urltype, and NO_MATCHING_DRIVER if and only if there is
\* none; an ffopen or ffinit of a name without a matching driver returns
\* NO_MATCHING_DRIVER and calls no function of a driver, and a file that is
\* opened or created afresh has the driver registered last for its type.
C10_Lookup ==
  /\ \A urltype \in {STR_x, STR_file, STR_mem, <<"q", ":", "/", "/">>} :
       IF Matching(urltype) = {}
       THEN urltype2driver(World, urltype).status = "NO_MATCHING_DRIVER"
       ELSE /\ urltype2driver(World, urltype).status = "OK"
            /\ urltype2driver(World, urltype).driver \in Matching(urltype)
            /\ \A i \in Matching(urltype) :
                 i <= urltype2driver(World, urltype).driver
  /\ (last.op \in {"ffopen", "ffinit"} /\ last.status_in = "OK") =>
       /\ Matching(LookupType(last.op, last.name)) = {} <=>
            last.status = "NO_MATCHING_DRIVER"
       /\ last.status = "NO_MATCHING_DRIVER" => OnlyRegistered(last.trace)
       /\ (last.status = "OK" /\ ~Attached(last.trace)) =>
            \A i \in Matching(LookupType(last.op, last.name)) :
              i <= Fptr[fptr[last.fptr].Fptr].driver

\* "x://" was registered with the functions of A and then with those of B:
\* an ffopen of "x://f" has opened the file with B
C10_Witness ==
  /\ last.op = "ffopen" /\ last.name = U_x /\ last.status = "OK"
  /\ \E i, j \in 0..(MAX_DRIVERS - 1) :
       /\ i < j /\ j < no_of_drivers
       /\ driverTable[i].prefix = STR_x /\ driverTable[i].open = "A_open"
       /\ driverTable[j].prefix = STR_x /\ driverTable[j].open = "B_open"
       /\ Fptr[fptr[last.fptr].Fptr].driver = j
       /\ \E k \in 1..Len(last.trace) : last.trace[k].ev = "B_open"

\* the calls of the init function of a driver in a trace
InitCalls(trace) ==
  Cardinality({k \in 1..Len(trace) : trace[k].ev \in {"A_init", "B_init"}})

\* C11: a registration with a prefix and an init function that succeeds is
\* rejected with TOO_MANY_DRIVERS exactly when the table already holds
\* MAX_DRIVERS entries, and the table never holds more than MAX_DRIVERS
C11_FullAtMax ==
  /\ no_of_drivers <= MAX_DRIVERS
  /\ (last.op = "fits_register_driver" /\ last.status = "TOO_MANY_DRIVERS")
       => no_of_drivers = MAX_DRIVERS

\* C12: a registration that fails leaves the count and the table as they
\* were; the init function runs once in an attempt that passes the checks
\* of the count and of the prefix, and not otherwise; a registration that
\* succeeds fills the entry at the old count and no other
C12_RegisterFrame ==
  [][last'.op = "fits_register_driver" =>
       /\ last'.status # "OK" =>
            /\ no_of_drivers' = no_of_drivers
            /\ driverTable' = driverTable
       /\ InitCalls(last'.trace) =
            (IF last'.status \in {"TOO_MANY_DRIVERS", "BAD_URL_PREFIX"}
             THEN 0 ELSE 1)
       /\ last'.status = "OK" =>
            /\ no_of_drivers' = no_of_drivers + 1
            /\ driverTable'[no_of_drivers].prefix = StoredPrefix(last'.name)
            /\ driverTable'[no_of_drivers] # EmptyDriver
            /\ \A i \in 0..(MAX_DRIVERS - 1) :
                 i # no_of_drivers => driverTable'[i] = driverTable[i]]_vars

\* a registration was rejected by the init function of the driver after
\* others had succeeded
C12_Witness ==
  /\ last.op = "fits_register_driver"
  /\ last.status = "DRIVER_ERROR"
  /\ InitCalls(last.trace) = 1
  /\ no_of_drivers > 1

\* the prefixes of the drivers of the library, in the order of the registry
BuiltinPrefixes(b) ==
  <<STR_file, STR_mem, STR_memkeep, STR_stdin, STR_stdout, STR_compress>>
    \o (IF b.net
        THEN <<STR_root, STR_http, STR_httpfile, STR_httpcompress, STR_ftp,
               STR_ftpfile, STR_ftpcompress>>
        ELSE << >>)
    \o (IF b.shmem THEN <<STR_shmem>> ELSE << >>)

\* the registry holds the drivers of the library at the indices 0.. in
\* their order
BuiltinsInOrder(n, table, b) ==
  /\ n = Len(BuiltinPrefixes(b))
  /\ \A k \in 1..Len(BuiltinPrefixes(b)) :
       table[k - 1].prefix = BuiltinPrefixes(b)[k]

\* the calls of the init functions of the drivers of the library in a trace
BuiltinInitCalls(trace, b) ==
  {k \in 1..Len(trace) :
     trace[k].ev \in {BuiltinDrivers(b)[i].init :
                        i \in 1..Len(BuiltinDrivers(b))}}

\* C13: over the calls of ffopen, ffomem and ffinit the library is
\* initialised at most once: a call that runs the initialisation clears the
\* guard, the guard is never set again and a call entered with the guard
\* cleared registers nothing; an initialisation that nothing in the
\* environment fails succeeds in every build, and after a call that
\* initialised the library and returned 0 the drivers of the library are at
\* the indices 0.. in the order file, mem, memkeep, stdin, stdout, compress,
\* root, http, httpfile, httpcompress, ftp, ftpfile, ftpcompress, shmem.
C13_InitOnce ==
  [][/\ BuiltinInitCalls(last'.trace, build) # {} =>
          need_to_initialize /\ ~need_to_initialize'
     /\ ~need_to_initialize =>
          /\ ~need_to_initialize'
          /\ BuiltinInitCalls(last'.trace, build) = {}
          /\ no_of_drivers' = no_of_drivers
          /\ driverTable' = driverTable
     /\ need_to_initialize =>
          LET r == fits_init_cfitsio(World, TRUE, 0)
          IN  /\ r.status = "OK"
              /\ BuiltinsInOrder(r.w.no_of_drivers, r.w.driverTable, build)
     /\ (need_to_initialize /\ ~need_to_initialize' /\ last'.status = "OK") =>
          /\ BuiltinsInOrder(no_of_drivers', driverTable', build)
          /\ Cardinality(BuiltinInitCalls(last'.trace, build))
               = Len(BuiltinPrefixes(build))]_vars

\* in the build with every driver, a file was created by a call that found
\* the library initialised
C13_Witness ==
  /\ build.net /\ build.shmem
  /\ ~need_to_initialize
  /\ no_of_drivers = 14
  /\ last.op = "ffinit" /\ last.status = "OK"
  /\ BuiltinInitCalls(last.trace, build) = {}

\* the call looked for a driver: it found none, or it called the open or
\* create function of the one it found
LookedUp(c) ==
  \/ c.status = "NO_MATCHING_DRIVER"
  \/ \E i \in 1..Len(c.trace) : c.trace[i].ev \in OpenFunctions

\* C14: when ffopen or ffinit has looked for a driver, the library had been
\* initialised with success and the registry holds all its drivers; after
\* an initialisation that failed no call goes on with an empty or partly
\* filled registry.
C14_PopulatedBeforeUse ==
  (last.op \in {"ffopen", "ffinit"} /\ LookedUp(last)) =>
    /\ ~need_to_initialize
    /\ BuiltinsInOrder(no_of_drivers, driverTable, build)

\* the driver that a lookup of the urltype finds among the n drivers of the
\* table has no function fn
Lacks(n, table, urltype, fn) ==
  LET hits == {i \in 0..(n - 1) : table[i].prefix = urltype}
  IN  /\ hits # {}
      /\ table[CHOOSE i \in hits : \A j \in hits : j <= i][fn] = "NULL"

\* the functions with which the drivers of a table open, create and close
OpenCreateClose(table) ==
  UNION {{table[i].open, table[i].create, table[i].close} :
           i \in 0..(MAX_DRIVERS - 1)} \ {"NULL"}

\* C15: ffopen of a name that is empty behind its leading blanks, or of a
\* name for which it looks up a driver (the file is not open already) that
\* has no open function, returns FILE_NOT_OPENED; ffinit
\* of an empty name, or of a name whose driver has no create function,
\* returns FILE_NOT_CREATED; in each case the Handle is null, no structure
\* is allocated and no driver is asked to open, create or close.
C15_NothingToOpen ==
  [][LET nothing ==
           /\ last'.fptr = 0
           /\ Fptr' = Fptr /\ fptr' = fptr /\ drvh' = drvh
           /\ \A k \in 1..Len(last'.trace) :
                last'.trace[k].ev \notin OpenCreateClose(driverTable')
     IN  /\ (/\ last'.op = "ffopen" /\ last'.status_in = "OK"
              /\ \/ SkipBlanks(last'.name) = << >>
                 \/ /\ ~Attached(last'.trace)
                    /\ Lacks(no_of_drivers', driverTable',
                             LookupType("ffopen", last'.name), "open"))
               => last'.status = "FILE_NOT_OPENED" /\ nothing
         /\ (/\ last'.op = "ffinit" /\ last'.status_in = "OK"
              /\ \/ SkipBlanks(last'.name) = << >>
                 \/ Lacks(no_of_drivers', driverTable',
                          LookupType("ffinit", last'.name), "create"))
               => last'.status = "FILE_NOT_CREATED" /\ nothing]_vars

\* ffinit was refused for a driver of the caller that cannot create, while
\* another file is open
C15_Witness ==
  /\ last.op = "ffinit" /\ last.name = U_x
  /\ last.status = "FILE_NOT_CREATED"
  /\ Lacks(no_of_drivers, driverTable, STR_x, "create")
  /\ Open_Handles # {}

\* the function of the driver that each routine calls for an open file
Dispatched ==
  [ffseek |-> "seek", ffread |-> "read", ffwrite |-> "write",
   ffflushx |-> "flush", fftrun |-> "truncate", ffclos |-> "close",
   ffdelt |-> "close"]

\* the driver of the file of the Handle h
DriverOf(h) == driverTable[Fptr[fptr[h].Fptr].driver]

\* C16: a routine never calls a function that the driver was registered
\* without: ffseek, ffread, ffwrite, ffclos and ffdelt report an error,
\* ffflushx and fftrun do nothing and succeed, and ffopen reports an error
\* when the driver has no size function.
C16_AbsentIsTyped ==
  /\ (/\ last.op \in DOMAIN Dispatched
       /\ last.h # 0
       /\ DriverOf(last.h)[Dispatched[last.op]] = "NULL")
        => /\ ~ub
           /\ IF last.op \in {"ffflushx", "fftrun"}
              THEN last.status = last.status_in /\ last.trace = << >>
              ELSE last.status \notin {"OK"}
  /\ (/\ last.op = "ffopen"
       /\ SkipBlanks(last.name) # << >>
       /\ Lacks(no_of_drivers, driverTable, LookupType("ffopen", last.name),
                "size"))
        => ~ub /\ last.status # "OK"

\* the positions in a trace of the calls of the function fn
CallsOf(trace, fn) == {k \in 1..Len(trace) : trace[k].ev = fn}

\* the positions in a trace of the calls of an open function of the table
OpenCalls(trace, table) ==
  {k \in 1..Len(trace) :
     trace[k].ev \in {table[i].open : i \in 0..(MAX_DRIVERS - 1)} \ {"NULL"}}

\* the latest of the n drivers of the table with the prefix urltype, -1 if
\* there is none
Latest(n, table, urltype) ==
  LET hits == {i \in 0..(n - 1) : table[i].prefix = urltype}
  IN  IF hits = {} THEN 0 - 1
      ELSE CHOOSE i \in hits : \A j \in hits : j <= i

\* what the claim asks of an ffopen of name that returned r when the
\* environment was o: d0 is the driver of the parsed type, t the type and
\* infile the name of the file after the check, d1 the driver of t
CheckfileRules(name, o, r, n, d0, t, infile, d1) ==
  LET table  == r.w.driverTable
      trace  == r.w.trace
      checks == CallsOf(trace, table[d0].checkfile)
      opens  == OpenCalls(trace, table)
  IN  /\ checks # {}
      /\ \A k \in opens : \A c \in checks : c < k
      /\ o.check = "fail" =>
           r.status = "DRIVER_ERROR" /\ opens = {} /\ r.fptr = 0
      /\ (o.check # "fail" /\ d1 < 0) =>
           r.status = "NO_MATCHING_DRIVER" /\ opens = {} /\ r.fptr = 0
      /\ (o.check # "fail" /\ d1 >= 0) =>
           /\ r.status = "OK" /\ r.fptr # 0
           /\ \E k \in opens :
                /\ opens = {k}
                /\ trace[k].ev = table[d1].open
                /\ trace[k].driver = d1
                /\ trace[k].str = infile
                /\ k < Len(trace)
                /\ trace[k + 1].ev = table[d1].size
                /\ trace[k + 1].driver = d1
           /\ r.w.Fptr[r.w.fptr[r.fptr].Fptr].driver = d1
           /\ r.w.Fptr[r.w.fptr[r.fptr].Fptr].filename = SkipBlanks(name)
           /\ LET c == ffclos(r.w, r.fptr, "OK", Calm).w.trace
              IN  /\ c[Len(c)].ev = table[d1].close
                  /\ c[Len(c)].driver = d1

\* the environments of a call of ffopen that explain what the call did
Explains(o, r) ==
  /\ r.status = last'.status
  /\ r.fptr = last'.fptr
  /\ r.w.trace = last'.trace
  /\ r.w.Fptr = Fptr'

\* C17: when ffopen looks up a driver that has a checkfile function, that
\* function is called before any open function; if it fails, ffopen
\* returns its status and opens nothing; the driver is that of the type
\* checkfile leaves: its open function is called with the infile checkfile
\* leaves, its size function follows, its index is in the FITSfile, whose
\* filename is the name given to ffopen, and ffclos calls its close
\* function; when there is no driver of that type, ffopen returns
\* NO_MATCHING_DRIVER and opens nothing.
C17_Checkfile ==
  [][(/\ last'.op = "ffopen" /\ last'.status_in = "OK"
      /\ ~Attached(last'.trace)
      /\ Latest(no_of_drivers', driverTable',
                InputOf(last'.name).urltype) >= 0
      /\ driverTable'[Latest(no_of_drivers', driverTable',
                             InputOf(last'.name).urltype)].checkfile
           # "NULL")
       => \A o \in {Calm} \cup Checks :
            LET r  == ffopen(World, last'.name, last'.mode, "OK", o)
                n  == InputOf(last'.name)
                d0 == Latest(no_of_drivers', driverTable', n.urltype)
                t  == CASE o.check = "compress" -> STR_compress
                        [] o.check = "unknown" -> STR_q
                        [] OTHER -> n.urltype
                infile == IF o.check = "compress"
                          THEN n.infile \o <<".", "g", "z">>
                          ELSE n.infile
            IN  Explains(o, r) =>
                  CheckfileRules(last'.name, o, r, n, d0, t, infile,
                                 Latest(no_of_drivers', driverTable', t))
    ]_vars

\* a file was opened by the driver that the caller registered for the
\* type checkfile gave it
C17_Witness ==
  /\ last.op = "ffopen" /\ last.status = "OK"
  /\ CallsOf(last.trace, "file_checkfile") # {}
  /\ \E k \in CallsOf(last.trace, "A_open") :
       last.trace[k].str = <<"f", ".", "g", "z">>
  /\ Fptr[fptr[last.fptr].Fptr].filename = U_f
  /\ driverTable[Fptr[fptr[last.fptr].Fptr].driver].prefix = STR_compress

\* the positions in a trace of the calls of a function fn (open, create,
\* remove, ...) of a driver of the table
CallsTo(trace, table, fn) ==
  {k \in 1..Len(trace) :
     trace[k].ev \in {table[i][fn] : i \in 0..(MAX_DRIVERS - 1)} \ {"NULL"}}

\* what the claim asks of an ffinit of a name that is url behind its blanks
\* and its '!', with the driver d
ClobberRules(clobber, url, pu, d) ==
  LET trace   == last'.trace
      rm      == driverTable'[d].remove
      removes == CallsTo(trace, driverTable', "remove")
      creates == CallsTo(trace, driverTable', "create")
  IN  /\ removes # {} <=> (clobber /\ rm # "NULL")
      /\ \A k \in removes :
           /\ removes = {k}
           /\ trace[k].ev = rm /\ trace[k].driver = d
           /\ trace[k].str = pu.outfile
           /\ \A c \in creates : k < c
      /\ driverTable'[d].create # "NULL" => creates # {}
      /\ \A c \in creates : trace[c].str = pu.outfile
      /\ strchr(pu.outfile, "!") = 0
      /\ last'.status = "OK" =>
           LET F == Fptr'[fptr'[last'.fptr].Fptr]
           IN  /\ F.filename = url
               /\ F.writemode = 1
               /\ F.filesize = 0 /\ F.logfilesize = 0
               /\ F.driver = d

\* C18: ffinit calls the remove function of the driver, with the outfile,
\* if and only if the name begins with '!' behind its blanks and the driver
\* has a remove function; the call comes before the call of create, which
\* follows whatever became of it; the '!' is neither in the outfile nor in
\* the filename of the new FITSfile, which can be written and has a
\* filesize and a logfilesize of 0.
C18_Clobber ==
  [][(/\ last'.op = "ffinit" /\ last'.status_in = "OK"
      /\ SkipBlanks(last'.name) # << >>
      /\ Latest(no_of_drivers', driverTable',
                LookupType("ffinit", last'.name)) >= 0)
       => LET url0    == SkipBlanks(last'.name)
              clobber == url0[1] = "!"
              url     == IF clobber THEN Tail(url0) ELSE url0
          IN  ClobberRules(clobber, url, ffourl(url, "OK"),
                           Latest(no_of_drivers', driverTable',
                                  LookupType("ffinit", last'.name)))
    ]_vars

\* a file was created under a name with blanks and '!' before it, after
\* the remove function of its driver was called
C18_Witness ==
  /\ last.op = "ffinit" /\ last.name = U_bclob /\ last.status = "OK"
  /\ CallsOf(last.trace, "file_remove") # {}
  /\ Fptr[fptr[last.fptr].Fptr].filename = U_c

\* the step is a call of ffclos for the only Handle of a file that is open
LastCloseOf(h) ==
  /\ last'.op = "ffclos" /\ last'.h = h
  /\ InUse(h)
  /\ Fptr[fptr[h].Fptr].validcode = "VALIDSTRUC"
  /\ Fptr[fptr[h].Fptr].open_count = 1

\* the call of ffclos that the step made can have returned r
ExplainsClose(r) ==
  /\ r.status = last'.status
  /\ r.w.trace = last'.trace
  /\ r.w.Fptr = Fptr' /\ r.w.fptr = fptr' /\ r.w.drvh = drvh'

\* the close function of the driver was called once and the two
\* structures of the Handle h are freed, with a validcode of 0
Released(h) ==
  /\ Cardinality(CallsTo(last'.trace, driverTable, "close")) = 1
  /\ fptr'[h].mem = "freed"
  /\ Fptr'[fptr[h].Fptr].mem = "freed"
  /\ Fptr'[fptr[h].Fptr].validcode = "ZERO"

\* the rules of the status of a last close, for a status before as it was
\* before the close function of the driver was called
CloseRules(before, o, r) ==
  /\ (~o.dclose /\ before = "OK") => r.status = "FILE_NOT_CLOSED"
  /\ before # "OK" => r.status = before
  /\ o.dclose => r.status = before

\* C19: in the ffclos that takes the last Handle of a file, the status
\* returned is FILE_NOT_CLOSED when the close function of the driver fails
\* and the status that ffchdu and ffflsh left is no error; it is the status
\* that they left when that is an error or when the driver closes the file;
\* they leave an error as it is; in every case the file is released.
C19_CloseStatus ==
  [][\A h \in 1..MaxHandles :
       LastCloseOf(h) =>
         /\ Released(h)
         /\ \A o \in CloseOracles :
              LET r == ffclos(World, h, last'.status_in, o)
                  before == CloseHDU(World, h, last'.status_in, o).status
              IN  ExplainsClose(r) =>
                    /\ CloseRules(before, o, r)
                    /\ last'.status_in # "OK" => before = last'.status_in
    ]_vars

\* C19 as it was claimed: the status that decides is the one passed to
\* ffclos
C19_CloseStatusIncoming ==
  [][\A h \in 1..MaxHandles :
       LastCloseOf(h) =>
         /\ Released(h)
         /\ \A o \in CloseOracles :
              LET r == ffclos(World, h, last'.status_in, o)
              IN  ExplainsClose(r) => CloseRules(last'.status_in, o, r)
    ]_vars

\* a file was released by an ffclos that was entered with an error
C19_Witness ==
  /\ last.op = "ffclos"
  /\ last.status_in = "PRIOR_ERROR" /\ last.status = "PRIOR_ERROR"
  /\ last.h # 0
  /\ fptr[last.h].mem = "freed"
  /\ Fptr[fptr[last.h].Fptr].validcode = "ZERO"

\* the call has called nothing and has left the library as it was
Untouched == last'.trace = << >> /\ UNCHANGED libvars

\* the driver handles that are open in a table of driver handles
OpenDH(table) == {k \in 1..MaxDH : table[k].state = "open"}

\* the file of the Handle h, which the call allocated, was opened and is
\* closed again, and the extension number is that of its HDU
OpenedAndClosed(h) ==
  /\ Attached(last'.trace) \/ OpenCalls(last'.trace, driverTable') # {}
  /\ ~Attached(last'.trace) => Fptr'[fptr'[h].Fptr].writemode = 0
  /\ last'.out.extension_num = fptr'[h].HDUposition + 1
  /\ fptr'[h].mem = "freed" \/ fptr'[h].closed
  /\ OpenDH(drvh') = OpenDH(drvh)
  /\ \A f \in 1..MaxFiles :
       /\ Fptr'[f].mem = "live" <=> Fptr[f].mem = "live"
       /\ Fptr'[f].mem = "live" => Fptr'[f].open_count = Fptr[f].open_count

\* C20: ffextn gives 1 for a name with a binspec; else, for a name with an
\* extspec, the number of the extspec plus 1 ("d+12" gives 13) and, when
\* the extspec is a name, URL_PARSE_ERROR without a call for stdin://, and
\* otherwise the number of the HDU that an ffopen for reading of the name
\* has moved to, the file being closed again; for a name with neither it
\* gives -99.
C20_ExtensionOf ==
  [][(last'.op = "ffextn" /\ last'.status_in = "OK") =>
       LET n == ffiurl(last'.name, IurlOutputs, "OK", FALSE, build.order)
           e == ffexts(n.extspec, "OK")
           num == last'.out.extension_num
       IN  /\ last'.name = U_plus => last'.status = "OK" /\ num = 13
           /\ n.status = "OK" =>
                IF n.binspec # << >>
                  THEN last'.status = "OK" /\ num = 1 /\ Untouched
                ELSE IF n.extspec = << >>
                  THEN last'.status = "OK" /\ num = 0 - 99 /\ Untouched
                ELSE IF e.status # "OK" THEN TRUE
                ELSE IF e.extname = << >>
                  THEN last'.status = "OK" /\ num = e.extnum + 1
                       /\ Untouched
                ELSE IF n.urltype = STR_stdin
                  THEN last'.status = "URL_PARSE_ERROR" /\ Untouched
                ELSE last'.status = "OK" => OpenedAndClosed(NextHandle(World))
    ]_vars

\* ffextn has opened a file to find an extension by its name, and has
\* closed it
C20_Witness ==
  /\ last.op = "ffextn" /\ last.name = U_fe /\ last.status = "OK"
  /\ last.out.extension_num = 2
  /\ CallsOf(last.trace, "file_open") # {}
  /\ CallsOf(last.trace, "file_close") # {}

\* C21: when ffextn gives a number other than -99 for a name, an ffopen of
\* the name that succeeds leaves the Handle at the HDU of that number, and
\* at the first HDU when ffextn gives -99.  For a name with a binspec the
\* Handle is that of the image ffhist makes, and ffextn gives 1.
C21_ExtnAgreesWithOpen ==
  [][(/\ last'.op = "ffopen" /\ last'.status_in = "OK"
      /\ last'.status = "OK" /\ last'.fptr # 0)
       => LET x == ffextn(World, last'.name, "OK", Calm)
              hdunum == fptr'[last'.fptr].HDUposition + 1
          IN  x.status = "OK" =>
                hdunum = (IF x.extension_num = 0 - 99 THEN 1
                          ELSE x.extension_num)
    ]_vars

\* "f[2]" was opened at the third HDU, and ffextn gives 3 for the name
C21_Witness ==
  /\ last.op = "ffopen" /\ last.status = "OK" /\ last.fptr # 0
  /\ last.name = U_f2
  /\ fptr[last.fptr].HDUposition = 2
  /\ ffextn(World, U_f2, "OK", Calm).extension_num = 3

\* the events of the last call that the routine ev made on a Handle
EventsOf(ev) == {k \in DOMAIN last.trace : last.trace[k].ev = ev}

\* the last call was an fftplt that returned 0 with a FITS file as the
\* template: the template was opened and its HDUs were gone through
TemplateWasFits ==
  /\ last.op = "fftplt" /\ last.status = "OK" /\ last.fptr # 0
  /\ EventsOf("ffmrhd") # {}

\* the Handle under which the template was gone through
TemplateHandle == last.trace[CHOOSE k \in EventsOf("ffmrhd") : TRUE].handle

\* C22: fftplt with a FITS file as the template reads the cards of the
\* template and writes them to the new file, never writes to the template,
\* takes the END_OF_FILE that ends the loop for success, closes the template
\* and leaves the caller at the first HDU of the new file.
C22_TemplateCopied ==
  TemplateWasFits =>
    /\ \A k \in EventsOf("ffprec") : last.trace[k].handle = last.fptr
    /\ \A k \in EventsOf("ffgrec") : last.trace[k].handle = TemplateHandle
    /\ \E k \in EventsOf("ffprec") : last.trace[k].handle = last.fptr
    /\ fptr[TemplateHandle].closed
    /\ fptr[last.fptr].HDUposition = 0

\* what of C22 the code does: the template is closed, the end of the
\* template is not an error, and the caller is at the first HDU
TemplateEnds ==
  TemplateWasFits =>
    /\ TemplateHandle # last.fptr
    /\ fptr[TemplateHandle].closed
    /\ fptr[last.fptr].mem = "live"
    /\ fptr[last.fptr].HDUposition = 0
    /\ \E k \in EventsOf("ffcrhd") : last.trace[k].handle = last.fptr

\* the last call was a call of the parser op with a status of 0
ParsedBy(op) == last.op = op /\ last.status_in = "OK"

\* what ffiurl gives for the name
Input(name) == ffiurl(name, IurlOutputs, "OK", FALSE, build.order)

\* the seven strings that ffiurl gives
Fields(r) ==
  [f \in IurlOutputs |->
     CASE f = "urltype" -> r.urltype [] f = "infile" -> r.infile
       [] f = "outfile" -> r.outfile [] f = "extspec" -> r.extspec
       [] f = "rowfilter" -> r.rowfilter [] f = "binspec" -> r.binspec
       [] f = "colspec" -> r.colspec]

\* the name of S2 without its leading blank is split as the scenario says
S2Split ==
  LET r == Input(Tail(U_S2))
  IN  /\ r.status = "OK"
      /\ r.urltype = STR_ftp
      /\ r.infile = <<"h","o","s","t","/","d","i","r","/","f",".","f","i","t","s">>
      /\ r.outfile = <<"c","a","c","h","e",".","f","i","t","s">>
      /\ r.extspec = <<"2">>
      /\ r.binspec = <<"b","i","n"," ","x",",","y">>
      /\ r.rowfilter = << >> /\ r.colspec = << >>

\* C23: ffiurl skips the leading blanks of the name and then splits it: the
\* name of S2, which begins with a blank, gives "ftp://", "host/dir/f.fits",
\* "cache.fits", "2", "bin x,y" and no rowfilter or colspec, and every name
\* gives what the name without its leading blanks gives.
C23_LeadingBlanks ==
  ParsedBy("ffiurl") =>
    /\ last.status = Input(SkipBlanks(last.name)).status
    /\ Fields(last.out) = Fields(Input(SkipBlanks(last.name)))
    /\ last.name = U_S2 => Fields(last.out) = Fields(Input(Tail(U_S2)))

\* the name is a file name alone: no type, no blank, no '(' and no '['
Bare(name) ==
  /\ Len(name) > 0
  /\ IurlPrefix(name).rest = name /\ IurlPrefix(name).urltype = STR_file
  /\ \A k \in DOMAIN name : name[k] \notin {"(", "[", " "}

\* the digits that end the name after its last '+', which is not its
\* first character; 0 - 1 when the name does not end so
PlusDigits(name) ==
  LET k == LastIndexOf(name, "+")
  IN  IF k > 1 /\ k < Len(name) /\ \A i \in (k + 1)..Len(name) : isdigit(name[i])
      THEN Len(name) - k ELSE 0 - 1

\* C24: for a file name p+d, p not empty and d of one to four digits,
\* ffiurl gives p as the infile and d as the extspec, with no rowfilter; when
\* d has more than four digits nothing is taken off and the extspec is empty.
C24_PlusExtension ==
  (ParsedBy("ffiurl") /\ Bare(last.name) /\ PlusDigits(last.name) >= 1) =>
    /\ last.status = "OK" /\ last.out.rowfilter = << >>
    /\ IF PlusDigits(last.name) <= 4
       THEN /\ last.out.infile =
                 SubSeq(last.name, 1, LastIndexOf(last.name, "+") - 1)
            /\ last.out.extspec =
                 Suffix(last.name, LastIndexOf(last.name, "+") + 1)
       ELSE last.out.infile = last.name /\ last.out.extspec = << >>

\* the name has neither '[' nor '('
Plain(name) == \A k \in DOMAIN name : name[k] \notin {"(", "["}

\* the file name r ends in a blank that ffiurl takes off
TrailingBlank(r) == Len(r) > 1 /\ r[Len(r)] = " "

\* the file name r ends as ffiurl's test of the 'filename+n' convention
\* wants: at most three digits after a last '+' that is not the first
\* character, or at most three digits and no '+' at all
EndsAsPlus(r) ==
  LET k == LastIndexOf(r, "+")
  IN  k # 1 /\ Len(r) - k < 4 /\ \A i \in (k + 1)..Len(r) : isdigit(r[i])

\* ffiurl returned 0 with the rest of the name as the infile and nothing else
OnlyInfile ==
  /\ last.status = "OK"
  /\ last.out.urltype = IurlPrefix(last.name).urltype
  /\ last.out.infile = IurlPrefix(last.name).rest
  /\ last.out.extspec = << >> /\ last.out.rowfilter = << >>
  /\ last.out.binspec = << >> /\ last.out.colspec = << >>
  /\ last.out.outfile = << >>

\* C25: for a name that is not empty and has neither '[' nor '(', ffiurl
\* returns 0 with the infile the name without its type, and the extspec,
\* rowfilter, binspec, colspec and outfile empty.  The two steps that change such a name are
\* left to their own rules: the blanks that end the file name are taken
\* off, and a file name p+d, p not empty and d of one to four digits, is
\* split by the 'filename+n' convention.
C25_PlainName ==
  (/\ ParsedBy("ffiurl") /\ Len(last.name) > 0 /\ Plain(last.name)
   /\ ~TrailingBlank(IurlPrefix(last.name).rest)
   /\ PlusDigits(IurlPrefix(last.name).rest) \notin 1..4)
    => OnlyInfile

\* what the code does for the names with neither '[' nor '(': the infile
\* is the name without its type and nothing else is given, unless the
\* file name ends in a blank or passes the code's test of the convention
PlainNameAsTested ==
  (/\ ParsedBy("ffiurl") /\ Len(last.name) > 0 /\ Plain(last.name)
   /\ ~TrailingBlank(IurlPrefix(last.name).rest)
   /\ ~EndsAsPlus(IurlPrefix(last.name).rest))
    => OnlyInfile

\* C26: ffourl gives "stdout://" with an empty outfile only for the name
\* "-"; for every other name the type is found as ffiurl finds it (the
\* explicit "scheme://", the short ftp:, http:, mem:, shmem: and file:,
\* else "file://") and the outfile is the rest of the name.
C26_OutputPrefix ==
  (ParsedBy("ffourl") /\ Len(last.name) > 0) =>
    /\ last.status = "OK"
    /\ last.out.urltype = STR_stdout => last.name = <<"-">>
    /\ last.name = <<"-">> =>
         last.out.urltype = STR_stdout /\ last.out.outfile = << >>
    /\ last.name[1] # "-" =>
         /\ last.out.urltype = IurlPrefix(last.name).urltype
         /\ last.out.outfile = IurlPrefix(last.name).rest

\* C27: for every name that ffiurl takes, ffrtnm gives the urltype of
\* ffiurl followed by the infile of ffiurl.
C27_RootIsTypeAndInfile ==
  (ParsedBy("ffrtnm") /\ Input(last.name).status = "OK") =>
    /\ last.status = "OK"
    /\ last.out.rootname =
         Input(last.name).urltype \o Input(last.name).infile

\* the value v on the first k axes and the null value on the others
OnAxes(k, v) ==
  [i \in 0..(MaxAxes - 1) |-> IF i < k THEN v ELSE DOUBLENULLVALUE]

\* ffbins gave the columns cols, each with the range r, for an image of
\* the type that letter selects
ParenParsed(letter, cols, r) ==
  /\ last.status = "OK" /\ ~last.out.ub
  /\ last.out.imagetype = BinsType(Cur(letter))
  /\ last.out.haxis = Len(cols)
  /\ last.out.colname =
       [i \in 0..(MaxAxes - 1) |-> IF i < Len(cols) THEN cols[i + 1]
                                   ELSE << >>]
  /\ last.out.minin = OnAxes(Len(cols), r.min)
  /\ last.out.maxin = OnAxes(Len(cols), r.max)
  /\ last.out.binsizein = OnAxes(Len(cols), r.size)
  /\ \A i \in 0..(MaxAxes - 1) :
       /\ last.out.minname[i] = << >> /\ last.out.maxname[i] = << >>
       /\ last.out.binname[i] = << >>
  /\ last.out.weight = Number(FALSE, 1, 0) /\ last.out.recip = 0
  /\ last.out.wtname = << >>

\* C28: for "bin[x] (c1,...,ck) = range" with one to four columns ffbins
\* gives haxis = k, the columns in their order, the one range on each of
\* the k axes, and the null value in every field that the range does not
\* state; "bini (X,Y)=:10:1" gives two axes X and Y of 16-bit pixels, with
\* max 10 and binsize 1 and no min on both.
C28_ParenthesisedColumns ==
  ParsedBy("ffbins") =>
    \A letter \in BinLetters, cols \in BinColumns, r \in BinRanges :
      last.name = BinParen(letter, cols, r.text)
        => ParenParsed(letter, cols, r)

\* "bini (X,Y)=:10:1" was parsed
C28_Witness ==
  /\ ParsedBy("ffbins")
  /\ last.name = <<"b","i","n","i"," ","(","X",",","Y",")","=",":","1","0",":","1">>
  /\ last.out.haxis = 2 /\ last.out.imagetype = "TSHORT"
  /\ last.out.colname[0] = <<"X">> /\ last.out.colname[1] = <<"Y">>
  /\ last.out.maxin[0] = Number(FALSE, 10, 0)
  /\ last.out.maxin[1] = Number(FALSE, 10, 0)
  /\ last.out.binsizein[1] = Number(FALSE, 1, 0)
  /\ last.out.minin[0] = DOUBLENULLVALUE /\ last.out.minin[1] = DOUBLENULLVALUE
  /\ last.out.maxin[2] = DOUBLENULLVALUE

\* C29: a specifier that is one number and no column, as "bin 4", gives
\* the default two axes with that number as the binsize of both, and no
\* column, min or max.
C29_SingleNumber ==
  \A n \in {[text |-> <<"4">>, value |-> 4],
             [text |-> <<"1", "6">>, value |-> 16]} :
    (ParsedBy("ffbins") /\ last.name = STR_bin \o <<" ">> \o n.text)
      => /\ last.status = "OK"
         /\ last.out.haxis = 2
         /\ last.out.binsizein[0] = Number(FALSE, n.value, 0)
         /\ last.out.binsizein[1] = Number(FALSE, n.value, 0)
         /\ \A i \in 0..(MaxAxes - 1) :
              /\ last.out.colname[i] = << >>
              /\ last.out.minin[i] = DOUBLENULLVALUE
              /\ last.out.maxin[i] = DOUBLENULLVALUE

\* C30: with a weight clause after a ';' ffbins returns with recip = 1
\* when the clause begins with '/', and 0 when it does not, and with the
\* weight as the number or the name that the clause states.
C30_Weight ==
  ParsedBy("ffbins") =>
    \A body \in BinBodies, w \in BinWeights :
      last.name = body \o w.text =>
        /\ last.status = "OK" /\ ~last.out.ub
        /\ last.out.recip = w.recip
        /\ last.out.weight = w.weight
        /\ last.out.wtname = w.wtname

\* what of C30 the code does: the weight, and recip = 0 without a '/'
WeightStated ==
  ParsedBy("ffbins") =>
    \A body \in BinBodies, w \in BinWeights :
      last.name = body \o w.text =>
        /\ last.status = "OK"
        /\ last.out.weight = w.weight /\ last.out.wtname = w.wtname
        /\ last.out.recip = 0
        /\ last.out.ub <=> w.recip = 1
\* what the call c of the library does in the present state when the
\* environment is o
Redo(c, o) ==
  CASE c.op = "ffopen" ->
         Named(ffopen(World, c.name, c.mode, c.status_in, o), c.name)
    [] c.op = "ffomem" -> ffomem(World, c.name, c.mode, c.status_in, o)
    [] c.op = "ffinit" -> ffinit(World, c.name, c.status_in, o)
    [] c.op = "ffreopen" -> ffreopen(World, c.h, c.status_in, o)
    [] c.op = "ffdelt" -> ffdelt(World, c.h, c.status_in, o)
    [] OTHER -> ffclos(World, c.h, c.status_in, o)

\* the step is the call of last' made in the environment o: the library
\* and the call are left as r leaves them
StepOf(r) ==
  /\ r.status = last'.status
  /\ r.w.trace = last'.trace
  /\ r.w.Fptr = Fptr' /\ r.w.fptr = fptr' /\ r.w.drvh = drvh'
  /\ r.w.ub = ub' /\ r.w.bufptr = bufptr'

\* an allocation of the call of last' fails in the environment o: the call
\* does not do what it does when every allocation succeeds
AllocationFailed(o) ==
  /\ last'.op \in {"ffopen", "ffomem", "ffinit", "ffreopen", "ffdelt"}
  /\ last'.status_in = "OK"
  /\ StepOf(Redo(last', o))
  /\ ~StepOf(Redo(last', Calm))

\* C31: when an allocation fails in ffopen, ffomem, ffinit, ffreopen or
\* ffdelt the call returns MEMORY_ALLOCATION and makes no invalid memory
\* access, and so does ffiurl when its allocation fails.
C31_AllocationFailure ==
  [][/\ \A o \in Failing(AllocOf(last'.op)) :
          AllocationFailed(o) => (last'.status = "MEMORY_ALLOCATION" /\ ~ub')
     /\ (last'.op = "ffiurl" /\ last'.status # "OK")
          => last'.status = "MEMORY_ALLOCATION"
    ]_vars

\* C31 for the calls and allocations for which it holds: every allocation
\* of ffopen and ffdelt, the two structures of ffinit, the three of ffomem,
\* and ffiurl
AllocationsChecked ==
  [][/\ \A o \in Failing(AllocOf(last'.op)) :
          (/\ AllocationFailed(o)
           /\ last'.op # "ffreopen"
           /\ ~(last'.op = "ffinit" /\ o.fail = "alloc_name")
           /\ ~(last'.op = "ffopen" /\ o.fail = "sel_alloc_name"))
            => (last'.status = "MEMORY_ALLOCATION" /\ ~ub')
     /\ (last'.op = "ffiurl" /\ last'.status # "OK")
          => last'.status = "MEMORY_ALLOCATION"
    ]_vars
\* the driver function that changes the file in each mutating operation
Mutating == [ffwrite |-> "write", fftrun |-> "truncate", ffdelt |-> "remove"]

\* the last call was a mutating operation on the Handle of a file that was
\* opened READONLY
OnReadOnly ==
  /\ last.op \in DOMAIN Mutating
  /\ last.h # 0
  /\ fptr[last.h].mem # "none"
  /\ Fptr[fptr[last.h].Fptr].writemode = 0

\* C32: ffwrite, fftrun and ffdelt on a file whose writemode is READONLY
\* never call the write, truncate or remove function of the driver.
C32_ReadOnlyRejects ==
  OnReadOnly => CallsTo(last.trace, driverTable, Mutating[last.op]) = {}
\* the step is a call of ffreopen, ffclos or ffdelt that looks at its Handle
OnHandle ==
  /\ last'.op \in {"ffreopen", "ffclos", "ffdelt"}
  /\ last'.op = "ffreopen" => last'.status_in = "OK"

\* the Handle h is that of a FITSfile with the valid magic value
ValidHandle(h) ==
  /\ h # 0
  /\ fptr[h].mem = "live"
  /\ Fptr[fptr[h].Fptr].mem = "live"
  /\ Fptr[fptr[h].Fptr].validcode = "VALIDSTRUC"

\* the step changes no open_count and calls no function of a driver
NothingDone(status) ==
  /\ last'.status = status
  /\ last'.trace = << >>
  /\ ~ub'
  /\ Fptr' = Fptr /\ fptr' = fptr /\ drvh' = drvh

\* the step returns a new Handle of the FITSfile of h, at the primary
\* array, with one more user of the file and no call of a driver
Reopened(h) ==
  /\ last'.status = "OK" /\ ~ub'
  /\ last'.fptr # 0 /\ last'.fptr # h
  /\ fptr[last'.fptr].mem = "none"
  /\ fptr'[last'.fptr].mem = "live"
  /\ fptr'[last'.fptr].Fptr = fptr[h].Fptr
  /\ fptr'[last'.fptr].HDUposition = 0
  /\ Fptr' = [Fptr EXCEPT ![fptr[h].Fptr].open_count = @ + 1]
  /\ \A g \in 1..MaxHandles : g # last'.fptr => fptr'[g] = fptr[g]
  /\ last'.trace = << >> /\ drvh' = drvh

\* C33: ffreopen, ffclos and ffdelt return NULL_INPUT_PTR for a null
\* Handle and BAD_FILEPTR for a Handle whose FITSfile has not the valid
\* magic value, as a Handle that was closed for good before; they then
\* change no open_count and call no driver; a valid ffreopen returns a new
\* Handle of the same FITSfile at HDU position 0, adds one to open_count
\* and calls no driver.
C33_HandleChecked ==
  [][OnHandle =>
       /\ last'.h = 0 => NothingDone("NULL_INPUT_PTR")
       /\ (last'.h # 0 /\ ~ValidHandle(last'.h)) => NothingDone("BAD_FILEPTR")
       /\ (last'.op = "ffreopen" /\ ValidHandle(last'.h)) => Reopened(last'.h)
    ]_vars

\* C33 where the memory of a closed Handle still holds what ffclos left:
\* the same, except when the call read freed memory and found no zero
HandleCheckedUnlessStale ==
  [][OnHandle =>
       /\ last'.h = 0 => NothingDone("NULL_INPUT_PTR")
       /\ (last'.h # 0 /\ ~ValidHandle(last'.h))
            => (NothingDone("BAD_FILEPTR") \/ (ub' /\ last'.trace = << >>))
       /\ (last'.op = "ffreopen" /\ ValidHandle(last'.h)) => Reopened(last'.h)
    ]_vars
\* the functions fn of the drivers of a table
FunctionsOf(table, fn) ==
  {table[i][fn] : i \in 0..(MAX_DRIVERS - 1)} \ {"NULL"}

\* the place of the call at position k of a trace among the steps of an
\* open: 1 checkfile, 2 the driver's open, 3 its size, 5 the parse of the
\* primary HDU (4 is the load of the first record, which calls nothing),
\* 6 the move to the extension (a move before any scratch file is
\* created), 7 the selection of rows, 8 the histogram; 0 for the other
\* calls
StepRank(trace, table, k) ==
  LET e == trace[k]
  IN  IF e.ev \in FunctionsOf(table, "checkfile") THEN 1
      ELSE IF e.ev \in FunctionsOf(table, "open") THEN 2
      ELSE IF e.ev \in FunctionsOf(table, "size") THEN 3
      ELSE IF e.ev = "ffrhdu" THEN 5
      ELSE IF /\ e.ev \in {"ffmahd", "ffmnhd"}
              /\ \A j \in 1..(k - 1) :
                   trace[j].ev \notin FunctionsOf(table, "create")
        THEN 6
      ELSE IF e.ev = "fits_select_rows" THEN 7
      ELSE IF e.ev = "ffhist" THEN 8
      ELSE 0

\* the steps that a trace shows
StepsIn(trace, table) ==
  {StepRank(trace, table, k) : k \in 1..Len(trace)} \ {0}

\* the steps of a trace are in their order, each at most once
InOrder(trace, table) ==
  \A i, j \in 1..Len(trace) :
    (i < j /\ StepRank(trace, table, i) # 0 /\ StepRank(trace, table, j) # 0)
      => StepRank(trace, table, i) < StepRank(trace, table, j)

\* the step that fails in the environment o, 9 when none does; the status
\* of a failed load of the first record is passed to the parse of the
\* primary HDU, which is called with it
FailRank(o) ==
  CASE o.check = "fail" -> 1
    [] o.fail = "dopen" -> 2
    [] o.fail = "size" -> 3
    [] o.fail \in {"ffldrc", "ffrhdu"} -> 5
    [] o.fail = "move" -> 6
    [] o.fail \in {"sel_create", "sel_select_rows"} -> 7
    [] OTHER -> 9

\* the move that the extension specifier e asks for is in the trace: ffmahd
\* for a number (when zeroMoves, also for the number 0), ffmnhd with the
\* name for a name, and no move without one
MoveAsked(trace, table, e, zeroMoves, numeric) ==
  LET moves == {k \in 1..Len(trace) : StepRank(trace, table, k) = 6}
  IN  IF e.extnum # 0 \/ (zeroMoves /\ numeric)
        THEN \E k \in moves : trace[k].ev = "ffmahd"
      ELSE IF e.extname # << >>
        THEN \E k \in moves :
               trace[k].ev = "ffmnhd" /\ trace[k].str = e.extname
      ELSE moves = {}

\* the specifier begins with a digit
Numeric(extspec) ==
  LET p == SkipBlanks(extspec) IN Len(p) > 0 /\ isdigit(p[1])

\* the steps of an open that found the file open: the move alone, and not
\* even that when the name has a binning specifier
ReuseSteps(trace, table, n, zeroMoves) ==
  /\ StepsIn(trace, table) \subseteq {6}
  /\ \A k \in 1..Len(trace) :
       trace[k].ev \notin FunctionsOf(table, "create")
  /\ IF n.binspec # << >> THEN StepsIn(trace, table) = {}
     ELSE last'.status = "OK"
            => MoveAsked(trace, table,
                         IF n.extspec = << >> THEN ExtsDefault
                         ELSE ffexts(n.extspec, "OK"),
                         zeroMoves, Numeric(n.extspec))

\* the steps of an open of a new file that returned 0: all those that the
\* name asks for
FreshSteps(trace, table, n, zeroMoves) ==
  /\ {2, 3, 5} \subseteq StepsIn(trace, table)
  /\ \E k \in 1..Len(trace) :
       /\ StepRank(trace, table, k) = 2
       /\ (table[trace[k].driver].checkfile # "NULL")
            <=> (1 \in StepsIn(trace, table))
  /\ MoveAsked(trace, table,
               IF n.extspec = << >> THEN ExtsDefault
               ELSE ffexts(n.extspec, "OK"),
               zeroMoves, Numeric(n.extspec))
  /\ (n.rowfilter # << >>) <=> (7 \in StepsIn(trace, table))
  /\ (n.binspec # << >>) <=> (8 \in StepsIn(trace, table))

\* what C34 asks of a step that is a call of ffopen
OpenStepsRule(zeroMoves) ==
  (last'.op = "ffopen" /\ last'.status_in = "OK") =>
    /\ InOrder(last'.trace, driverTable')
    /\ Attached(last'.trace)
         => ReuseSteps(last'.trace, driverTable', InputOf(last'.name),
                       zeroMoves)
    /\ (~Attached(last'.trace) /\ last'.status = "OK")
         => FreshSteps(last'.trace, driverTable', InputOf(last'.name),
                       zeroMoves)
    /\ \A o \in OrderOracles :
         (StepOf(Redo(last', o)) /\ ~StepOf(Redo(last', Calm)))
           => \A s \in StepsIn(last'.trace, driverTable') : s <= FailRank(o)

\* C34: the steps of an open run in one order (checkfile, the driver's
\* open, its size, the load of the first record, the parse of the primary
\* HDU, the move to the extension, the selection of rows, the binning),
\* each only when those before it succeeded; the move is ffmahd for a
\* number above 0 and ffmnhd for a name; an open that finds the file open
\* does none of them but the move, and not the move either when the name
\* has a binning specifier.
C34_OpenSteps == [][OpenStepsRule(FALSE)]_vars

\* C34 as it was claimed: ffmahd is called for every number, 0 too
C34_OpenStepsZeroMoves == [][OpenStepsRule(TRUE)]_vars

\* an open with an extension, a row filter and a binning specifier ran all
\* its steps, and an open with a binning specifier found the file open
C34_Witness ==
  /\ last.op = "ffopen" /\ last.status = "OK"
  /\ \/ /\ last.name = U_all
        /\ StepsIn(last.trace, driverTable) = {1, 2, 3, 5, 6, 7, 8}
     \/ /\ last.name = U_fbin /\ Attached(last.trace)
        /\ StepsIn(last.trace, driverTable) = {}
\* the Handle h is open on a file in memory that did not exist before the
\* step
OnNewScratch(h) ==
  /\ h # 0 /\ fptr[h].mem = "none" /\ fptr'[h].mem = "live"
  /\ Fptr[fptr'[h].Fptr].mem = "none"
  /\ Fptr'[fptr'[h].Fptr].mem = "live"
  /\ driverTable'[Fptr'[fptr'[h].Fptr].driver].prefix = STR_mem

\* the step closed the Handle h once: one user less of its file, one flush
ClosedOnce(h) ==
  /\ fptr'[h].closed
  /\ Fptr'[fptr[h].Fptr].open_count = Fptr[fptr[h].Fptr].open_count - 1
  /\ Cardinality({k \in 1..Len(last'.trace) :
                    last'.trace[k].ev = "ffchdu"
                    /\ last'.trace[k].handle = h}) = 1

\* the step left no file and no Handle that was not there before
ScratchGone ==
  /\ \A f \in 1..MaxFiles : Fptr[f].mem = "none" => Fptr'[f].mem # "live"
  /\ \A g \in 1..MaxHandles : fptr[g].mem = "none" => fptr'[g].mem # "live"

\* the step left the Handle h on its file
StillOnSource(h) ==
  /\ last'.fptr = h
  /\ fptr'[h].mem = "live" /\ fptr'[h].Fptr = fptr[h].Fptr
  /\ Fptr'[fptr[h].Fptr].mem = "live"
  /\ Fptr'[fptr[h].Fptr].open_count = Fptr[fptr[h].Fptr].open_count

\* what ffselect_table leaves when it returns 0
Selected(h) ==
  /\ last'.fptr # h
  /\ OnNewScratch(last'.fptr)
  /\ fptr'[last'.fptr].HDUposition = fptr[h].HDUposition
  /\ ClosedOnce(h)

\* C35: after a select_and_replace that returns 0 the caller's Handle is
\* on a new scratch file in memory, on the HDU the source was on, and the
\* source Handle was closed exactly once; after one that fails the scratch
\* file is closed and the caller's Handle is still on the source.
C35_SelectAndReplace ==
  [][(last'.op = "ffselect_table" /\ last'.status_in = "OK") =>
       IF last'.status = "OK" THEN Selected(last'.h)
       ELSE ScratchGone /\ StillOnSource(last'.h)]_vars

\* ffclos was called in the step for every Handle that the step allocated
ScratchCloseCalled ==
  \A g \in 1..MaxHandles :
    (fptr[g].mem = "none" /\ fptr'[g].mem # "none")
      => \E k \in 1..Len(last'.trace) :
           last'.trace[k].ev = "ffchdu" /\ last'.trace[k].handle = g

\* the same, with the close of the scratch file taken to be the call of
\* ffclos, and but for the calls in which ffinit fails after the driver has
\* created the scratch file and those that fail after the source was closed
SelectAndReplaceBeforeClose ==
  [][(last'.op = "ffselect_table" /\ last'.status_in = "OK") =>
       IF last'.status = "OK" THEN Selected(last'.h)
       ELSE \/ ScratchCloseCalled /\ StillOnSource(last'.h)
            \/ Len(last'.trace) = 1 /\ StillOnSource(last'.h)
            \/ OnNewScratch(last'.fptr) /\ ClosedOnce(last'.h)]_vars

\* a selection returned 0 on a file with another user, and one failed
SelectionsMade ==
  /\ last.op = "ffselect_table" /\ last.status_in = "OK"
  /\ last.status = "OK"
  /\ Fptr[fptr[last.h].Fptr].mem = "live"
\* ffexts gave the extension number n and nothing else
IndexGiven(n) ==
  /\ last.status = "OK" /\ ~last.out.ub
  /\ last.out.extnum = n /\ last.out.extname = << >>
  /\ last.out.extvers = 0 /\ last.out.hdutype = "ANY_HDU"

\* ffexts gave the name, the version and the kind of HDU, and no number
NamedGiven(name, version, kind) ==
  /\ last.status = "OK" /\ ~last.out.ub
  /\ last.out.extnum = 0 /\ last.out.extname = name
  /\ last.out.extvers = version /\ last.out.hdutype = kind

\* ffexts refused the specifier
ExtsRefused == last.status = "URL_PARSE_ERROR" /\ ~last.out.ub

\* what C36 says of the specifiers that begin with a digit
NumbersParsed ==
  \A blanks \in ExtsBlanks, n \in ExtsNumbers :
    last.name = blanks \o n.text
      => IF n.inrange THEN IndexGiven(n.value) ELSE ExtsRefused

\* what C36 says of the specifiers that are a name alone
NamesParsed ==
  \A blanks \in ExtsBlanks, name \in ExtsNames \cup {<< >>} :
    last.name = blanks \o name => NamedGiven(name, 0, "ANY_HDU")

\* what C36 says of the specifiers with a name and a version field
NamedParsed(versions) ==
  \A name \in ExtsNames, sep1 \in ExtsSeparators, v \in versions,
     sep2 \in ExtsSeparators, k \in ExtsKinds :
    last.name = ExtsText(name, sep1, v, sep2, k)
      => IF v.integer /\ k.kind # "none"
           THEN NamedGiven(name, v.value, k.kind)
         ELSE ExtsRefused

\* C36: ffexts skips the leading blanks; a specifier that begins with a
\* digit gives the number it begins with when that is 0..9999 and
\* URL_PARSE_ERROR otherwise; any other gives the name up to the first
\* of ' ', ',' and ':', the version that follows (0 when there is none,
\* URL_PARSE_ERROR when the field is not an integer) and the kind of HDU
\* of the letter after it (b/B, t/T/a/A, i/I; URL_PARSE_ERROR for another
\* letter, any HDU without one).
C36_ExtensionSpec ==
  ParsedBy("ffexts") =>
    NumbersParsed /\ NamesParsed /\ NamedParsed(ExtsVersions)

\* the same but for the numbers above INT_MAX and the version fields that
\* begin with an integer and go on
ExtensionSpecWithinInt ==
  ParsedBy("ffexts") =>
    /\ \/ \E blanks \in ExtsBlanks, n \in ExtsNumbers :
            /\ last.name = blanks \o n.text
            /\ AboveIntMax(n.text) /\ last.out.ub
       \/ NumbersParsed
    /\ NamesParsed
    /\ NamedParsed({v \in ExtsVersions : v.text # <<"2", "b">>})
\* the step is an ffopen for reading and writing that returned 0 and a
\* Handle
OpenedReadWrite ==
  /\ last'.op = "ffopen" /\ last'.status_in = "OK" /\ last'.mode = 1
  /\ last'.status = "OK" /\ last'.fptr # 0

\* an ffopen leaves the writemode of the files that were open as it was
WritemodeKept ==
  last'.op = "ffopen" =>
    \A g \in 1..MaxHandles :
      (fptr[g].mem = "live" /\ Fptr[fptr[g].Fptr].mem = "live")
        => Fptr'[fptr[g].Fptr].writemode = Fptr[fptr[g].Fptr].writemode

\* C37: the Handle of an open for reading and writing that returned 0 is
\* on a file whose writemode is that of reading and writing, also when the
\* open found the file open for reading only; and an open that finds the
\* file open does not change the writemode that the Handles of it see.
C37_ReadWriteOpen ==
  [][/\ OpenedReadWrite => Fptr'[fptr'[last'.fptr].Fptr].writemode = 1
     /\ WritemodeKept]_vars

\* the same for the opens that did not find the file open
ReadWriteOpenOfNewFile ==
  [][/\ (OpenedReadWrite /\ ~Attached(last'.trace))
          => Fptr'[fptr'[last'.fptr].Fptr].writemode = 1
     /\ (OpenedReadWrite /\ Attached(last'.trace))
          => Fptr'[fptr'[last'.fptr].Fptr].writemode
               = Fptr[fptr'[last'.fptr].Fptr].writemode
     /\ WritemodeKept]_vars
\* the file names of the parsed names that hold no '+'
BodiesWithoutPlus ==
  {b \in ParseBodies : \A k \in DOMAIN b : b[k] # "+"}

\* the beginnings of the parsed names that ffiurl takes off
TransportsTaken == ParseTransports \ {<<" ">>}

\* a bracket after the file name, with the specifier that it holds
BracketTails ==
  {[text |-> <<"[", "2", "]">>, extspec |-> <<"2">>],
   [text |-> <<"[", "e", "]", "[", "A", "]">>, extspec |-> <<"e">>]}

\* the '+n' convention was not applied to the file name b: nothing was
\* written outside the buffer, the infile is b (without the trailing
\* blanks, which the step before takes off) and the extspec is extspec
ShortcutNotTaken(b, extspec) ==
  /\ last.status = "OK"
  /\ ~last.out.ub
  /\ last.out.infile = StripTrailingBlanks(b)
  /\ last.out.extspec = extspec

\* what C38 says of the file names in bodies
NoShortcutIn(bodies) ==
  /\ \A p \in TransportsTaken, b \in bodies :
       (last.name = p \o b /\ Len(last.name) > 0)
         => ShortcutNotTaken(b, << >>)
  /\ \A b \in bodies, t \in BracketTails :
       last.name = b \o t.text => ShortcutNotTaken(b, t.extspec)

\* C38: ffiurl applies the 'filename+n' convention only to an infile with
\* a '+' that is not its first character; for an infile without a '+', the
\* empty infile of "-" and a short name of digits like "12" too, the
\* extspec is not taken from the infile, the infile is left as it is, no
\* byte outside the buffer of the infile is written, and a bracket that
\* follows is parsed as the extension specifier.
C38_NoPlusNoShortcut == ParsedBy("ffiurl") => NoShortcutIn(BodiesWithoutPlus)

\* the same for the names that are not a run of at most three digits
NoShortcutButForDigits ==
  ParsedBy("ffiurl") => NoShortcutIn(BodiesWithoutPlus \ {<< >>, <<"1", "2">>})
\* the library as it is, but with no file open
NoFileOpen ==
  [World EXCEPT
     !.Fptr = [i \in 1..MaxFiles |-> NoFile],
     !.fptr = [i \in 1..MaxHandles |-> NoHandle],
     !.bufptr = [i \in 0..(NIOBUF - 1) |-> 0],
     !.drvh = [i \in 1..MaxDH |-> [state |-> "unused", closes |-> 0,
                                   driver |-> 0]]]

\* the calls of a trace without the Handles they were made for
CallsMade(trace) ==
  [k \in 1..Len(trace) |->
     [ev |-> trace[k].ev, driver |-> trace[k].driver, str |-> trace[k].str]]

\* the stored name is not that of the file that the name u asks for: it
\* is not parsed, or its urltype or its infile is another
Unrelated(stored, u) ==
  \/ InputOf(stored).status # "OK"
  \/ InputOf(stored).urltype # InputOf(u).urltype
  \/ InputOf(stored).infile # InputOf(u).infile

\* every file that is open is unrelated to the name u
AllUnrelated(u) ==
  \A f \in 1..MaxFiles :
    Fptr[f].mem = "live" => Unrelated(Fptr[f].filename, u)

\* the stored names of the files that are open are parsed, and without a
\* write outside a buffer
AllParsed ==
  \A f \in 1..MaxFiles :
    Fptr[f].mem = "live"
      => InputOf(Fptr[f].filename).status = "OK"
         /\ ~InputOf(Fptr[f].filename).ub

\* the step is the ffopen that the call c makes in the environment o, and
\* it gives what it gives with no file open
\* what the ffopen of the call c gives in the environment o with no file
\* open
OpenAlone(c, o) == ffopen(NoFileOpen, c.name, c.mode, c.status_in, o)

\* the step is the ffopen that the call c makes in the environment o, and
\* it gives what it gives with no file open
AsWithNoFileOpen(c, o) ==
  StepOf(Redo(c, o)) =>
    /\ c.status = OpenAlone(c, o).status
    /\ CallsMade(c.trace) = CallsMade(OpenAlone(c, o).w.trace)
    /\ ub' = OpenAlone(c, o).w.ub

\* C39: an ffopen of a name gives the status and makes the calls of the
\* drivers that it would with no file open, whatever unrelated files are
\* open (files of another urltype or infile), those created by ffinit
\* under a name that ffiurl does not parse too.
C39_Independent ==
  [][(last'.op = "ffopen" /\ last'.status_in = "OK"
      /\ AllUnrelated(last'.name))
       => \A o \in IndepOracles : AsWithNoFileOpen(last', o)]_vars

\* the same when the names of the open files are parsed
IndependentOfParsed ==
  [][(last'.op = "ffopen" /\ last'.status_in = "OK"
      /\ AllUnrelated(last'.name) /\ AllParsed)
       => \A o \in IndepOracles : AsWithNoFileOpen(last', o)]_vars
\* the step left the open_count of the files that were open as it was
CountsKept ==
  \A f \in 1..MaxFiles :
    Fptr[f].mem = "live" => Fptr'[f].open_count = Fptr[f].open_count

\* the step made no Handle of a file that was open
NoNewUser ==
  \A g \in 1..MaxHandles :
    (fptr[g].mem = "none" /\ fptr'[g].mem = "live")
      => Fptr[fptr'[g].Fptr].mem # "live"

\* C40: an ffopen that returns a status other than 0 leaves the open_count
\* of every file that was open as it was and hands out no new Handle of
\* such a file, also when it found the file open and the parse of the
\* extension or the move to it failed.
C40_FailedOpenKeepsCounts ==
  [][(last'.op = "ffopen" /\ last'.status # "OK")
       => CountsKept /\ NoNewUser]_vars

\* the same for the opens that did not find the file open
FailedNewOpenKeepsCounts ==
  [][(last'.op = "ffopen" /\ last'.status # "OK" /\ ~Attached(last'.trace))
       => CountsKept /\ NoNewUser]_vars

====
